---- MODULE Spec2Model ----
(***************************************************************************)
(* Status-relay pipeline of the client portal: the webhook receiver        *)
(* (src/pages/api/webhooks/github-status.ts), its status query, and the    *)
(* generation trigger (src/pages/api/generate.ts).                         *)
(***************************************************************************)
EXTENDS Integers, Sequences, FiniteSets, TLC

\* ------------------------------------------------------------------ bounds
\* Webhook requests that may be between `await request.text()` and the rest
\* of the handler at the same time.
MaxInflight == 2
\* Largest reading of the wall clock (new Date()).
MaxClock == 1
\* How far below 0 and above 100 the progress inputs of the pure-function
\* specification range.
ProgressSlack == 20

\* ---------------------------------------------------------------- values
\* A JavaScript `undefined` (an optional field that is absent).
Undefined == "<undefined>"

ClientIds == {"acme-1", "beta-2"}

StepIds == {"uploadLogo", "analyzeLogo", "generateTheme", "createRepo", "deployPreview"}

\* GitHubStatusUpdate['status'] values, and strings outside that union.
RecognizedStatuses ==
    {"started", "logo_processed", "logo_skipped", "content_generated", "completed", "failed"}
GithubStatusInputs == RecognizedStatuses \cup {"test", "queued", "", "STARTED", Undefined}

\* ------------------------------------------------------- mapGitHubStatus
\* The initial step states with the last step left out.
defaultSteps_NoDeployPreview ==
    [uploadLogo |-> "pending", analyzeLogo |-> "pending",
     generateTheme |-> "pending", createRepo |-> "pending"]

defaultSteps ==
    [uploadLogo |-> "pending", analyzeLogo |-> "pending",
     generateTheme |-> "pending", createRepo |-> "pending",
     deployPreview |-> "pending"]

\* { ...base, k1: v1, ... }: the keys of both, those of `over` winning.
Spread(base, over) ==
    [s \in DOMAIN base \cup DOMAIN over |->
        IF s \in DOMAIN over THEN over[s] ELSE base[s]]

\* The table with the 'failed' case falling through to the default row.
mapGitHubStatus_FailedFallsThrough(githubStatus) ==
    CASE githubStatus = "started" ->
           [status |-> "starting", progress |-> 10, currentStep |-> "uploadLogo",
            steps |-> Spread(defaultSteps, [uploadLogo |-> "in-progress"])]
      [] githubStatus = "logo_processed" ->
           [status |-> "in-progress", progress |-> 25, currentStep |-> "analyzeLogo",
            steps |-> Spread(defaultSteps,
                        [uploadLogo |-> "completed", analyzeLogo |-> "in-progress"])]
      [] githubStatus = "logo_skipped" ->
           [status |-> "in-progress", progress |-> 25, currentStep |-> "generateTheme",
            steps |-> Spread(defaultSteps,
                        [uploadLogo |-> "completed", analyzeLogo |-> "completed",
                         generateTheme |-> "in-progress"])]
      [] githubStatus = "content_generated" ->
           [status |-> "in-progress", progress |-> 60, currentStep |-> "createRepo",
            steps |-> Spread(defaultSteps,
                        [uploadLogo |-> "completed", analyzeLogo |-> "completed",
                         generateTheme |-> "completed", createRepo |-> "in-progress"])]
      [] githubStatus = "completed" ->
           [status |-> "completed", progress |-> 100, currentStep |-> "deployPreview",
            steps |-> [uploadLogo |-> "completed", analyzeLogo |-> "completed",
                       generateTheme |-> "completed", createRepo |-> "completed",
                       deployPreview |-> "completed"]]
      [] OTHER ->
           [status |-> "in-progress", progress |-> 50, currentStep |-> "generateTheme",
            steps |-> Spread(defaultSteps, [generateTheme |-> "in-progress"])]

mapGitHubStatus(githubStatus) ==
    CASE githubStatus = "started" ->
           [status |-> "starting", progress |-> 10, currentStep |-> "uploadLogo",
            steps |-> Spread(defaultSteps, [uploadLogo |-> "in-progress"])]
      [] githubStatus = "logo_processed" ->
           [status |-> "in-progress", progress |-> 25, currentStep |-> "analyzeLogo",
            steps |-> Spread(defaultSteps,
                        [uploadLogo |-> "completed", analyzeLogo |-> "in-progress"])]
      [] githubStatus = "logo_skipped" ->
           [status |-> "in-progress", progress |-> 25, currentStep |-> "generateTheme",
            steps |-> Spread(defaultSteps,
                        [uploadLogo |-> "completed", analyzeLogo |-> "completed",
                         generateTheme |-> "in-progress"])]
      [] githubStatus = "content_generated" ->
           [status |-> "in-progress", progress |-> 60, currentStep |-> "createRepo",
            steps |-> Spread(defaultSteps,
                        [uploadLogo |-> "completed", analyzeLogo |-> "completed",
                         generateTheme |-> "completed", createRepo |-> "in-progress"])]
      [] githubStatus = "completed" ->
           [status |-> "completed", progress |-> 100, currentStep |-> "deployPreview",
            steps |-> [uploadLogo |-> "completed", analyzeLogo |-> "completed",
                       generateTheme |-> "completed", createRepo |-> "completed",
                       deployPreview |-> "completed"]]
      [] githubStatus = "failed" ->
           [status |-> "error", progress |-> 0, currentStep |-> "error",
            steps |-> defaultSteps]
      [] OTHER ->
           [status |-> "in-progress", progress |-> 50, currentStep |-> "generateTheme",
            steps |-> Spread(defaultSteps, [generateTheme |-> "in-progress"])]

\* ------------------------------------------------ calculateTimeRemaining
totalEstimatedTime == 300

\* Math.round of the rational num/den (den > 0): the nearest integer, a half
\* rounded towards +infinity.
MathRound(num, den) == (2 * num + den) \div (2 * den)

Max(a, b) == IF a >= b THEN a ELSE b

calculateTimeRemaining_NoGuard(progress) ==
    MathRound((100 - progress) * totalEstimatedTime, 100)

calculateTimeRemaining(progress) ==
    IF progress >= 100 THEN 0
    ELSE Max(0, MathRound((100 - progress) * totalEstimatedTime, 100))

\* ------------------------------------------------------- webhook requests
\* The parsed bodies the external workflow posts (GitHubStatusUpdate); `text`
\* stands for the raw body the signature is computed over.
StatusUpdates ==
    { [text |-> "p1", status |-> "started", client_name |-> "acme-1",
       message |-> "Starting generation", pr_url |-> Undefined,
       preview_url |-> Undefined, error |-> Undefined],
      [text |-> "p2", status |-> "completed", client_name |-> "acme-1",
       message |-> "Website ready", pr_url |-> "https://pr.test/1",
       preview_url |-> "https://x.test", error |-> Undefined],
      [text |-> "p3", status |-> "failed", client_name |-> "acme-1",
       message |-> "Generation failed", pr_url |-> Undefined,
       preview_url |-> Undefined, error |-> "build error"],
      [text |-> "p4", status |-> "content_generated", client_name |-> "beta-2",
       message |-> "Content generated", pr_url |-> Undefined,
       preview_url |-> Undefined, error |-> Undefined] }

\* What JSON.parse makes of a raw body: an object, or a SyntaxError.
Bodies ==
    { [json |-> "object", text |-> u.text, value |-> u] : u \in StatusUpdates }
    \cup { [json |-> "invalid", text |-> "{oops", value |-> Undefined] }

\* Bodies that are JSON objects with fields missing: no client_name, no
\* status, and the empty object.
IncompleteUpdates ==
    { [text |-> "p5", status |-> "completed", client_name |-> Undefined,
       message |-> "Website ready", pr_url |-> Undefined,
       preview_url |-> Undefined, error |-> Undefined],
      [text |-> "p6", status |-> Undefined, client_name |-> "acme-1",
       message |-> Undefined, pr_url |-> Undefined,
       preview_url |-> Undefined, error |-> Undefined],
      [text |-> "{}", status |-> Undefined, client_name |-> Undefined,
       message |-> Undefined, pr_url |-> Undefined,
       preview_url |-> Undefined, error |-> Undefined] }

IncompleteBodies ==
    { [json |-> "object", text |-> u.text, value |-> u] : u \in IncompleteUpdates }

Secrets == {"k1"}

\* crypto.createHmac('sha256', secret).update(payload).digest('hex'): a
\* fixed-length digest, different for different (secret, payload).
HmacSha256Hex(secret, text) ==
    secret \o SubSeq(text \o "......", 1, 8)

\* The x-hub-signature-256 header values a request may carry for a body: none,
\* the keyed hash of the body and, for the body "p1", a hash under another key
\* (wrong, of the right length) and a truncated value (wrong, too short).
SignatureHeaders(text) ==
    { Undefined }
    \cup { "sha256=" \o HmacSha256Hex(k, text) : k \in Secrets }
    \cup (IF text = "p1"
          THEN { "sha256=" \o HmacSha256Hex("k2", text), "sha256=00" }
          ELSE {})

\* ------------------------------------------------------------------ state
VARIABLES
    statusStore,     \* Map<string, GenerationStatus>
    webhookSecret,   \* import.meta.env.GITHUB_WEBHOOK_SECRET
    inflight,        \* webhook requests awaiting request.text()
    now,             \* the wall clock
    last,            \* the last response sent; history: `pending`, the requests for
                     \* the same client still suspended when it was sent
    acked,           \* history: per clientId, the last acknowledged update
    githubToken,     \* process.env.GITHUB_TOKEN
    gen,             \* the POST /generate request being handled, and its response
    dispatched,      \* the repository-dispatch calls made for that request
    fnIn,            \* a pure function's name and argument
    fnOut,           \* its result
    alias,           \* the GET /api/status/[clientId] request being handled
    poller,          \* the status query of one tracking session (client side)
    maxRetryAttempts, \* PUBLIC_MAX_RETRY_ATTEMPTS as the query client reads it
    ws,              \* one component's useWebSocket hook and the socket it created
    form,            \* the GeneratorForm component's state
    prog             \* one component's useGenerationProgress hook

serverVars == <<statusStore, webhookSecret, inflight, last, acked>>
genVars == <<githubToken, gen, dispatched>>
fnVars == <<fnIn, fnOut>>
restVars == <<alias, poller, maxRetryAttempts>>
uiVars == <<ws, form, prog>>
vars == <<serverVars, now, genVars, fnVars, restVars, uiVars>>

Truthy(v) == v # Undefined /\ v # ""

\* ------------------------------------------------ verifyGitHubSignature
\* "true" | "false" | "throws" (crypto.timingSafeEqual raises a RangeError on
\* buffers of different byte length).
timingSafeEqual(a, b) ==
    IF Len(a) # Len(b) THEN "throws"
    ELSE IF a = b THEN "true" ELSE "false"

verifyGitHubSignature(text, signature, secret) ==
    IF ~Truthy(secret) \/ ~Truthy(signature) THEN "true"
    ELSE timingSafeEqual(signature, "sha256=" \o HmacSha256Hex(secret, text))

\* ------------------------------------------------------------ POST handler
\* The record with the two URLs of the update exchanged.
GenerationStatusOf_SwappedUrls(statusUpdate, time) ==
    LET mappedStatus == mapGitHubStatus(statusUpdate.status) IN
    [clientId |-> statusUpdate.client_name,
     status |-> mappedStatus.status,
     progress |-> mappedStatus.progress,
     currentStep |-> mappedStatus.currentStep,
     message |-> statusUpdate.message,
     previewUrl |-> statusUpdate.pr_url,
     repositoryUrl |-> statusUpdate.preview_url,
     error |-> statusUpdate.error,
     steps |-> mappedStatus.steps,
     estimatedTimeRemaining |-> calculateTimeRemaining(mappedStatus.progress),
     updatedAt |-> time]

\* The record with the estimate of a generation that has not started.
GenerationStatusOf_StaleEstimate(statusUpdate, time) ==
    LET mappedStatus == mapGitHubStatus(statusUpdate.status) IN
    [clientId |-> statusUpdate.client_name,
     status |-> mappedStatus.status,
     progress |-> mappedStatus.progress,
     currentStep |-> mappedStatus.currentStep,
     message |-> statusUpdate.message,
     previewUrl |-> statusUpdate.preview_url,
     repositoryUrl |-> statusUpdate.pr_url,
     error |-> statusUpdate.error,
     steps |-> mappedStatus.steps,
     estimatedTimeRemaining |-> calculateTimeRemaining(0),
     updatedAt |-> time]

\* The GenerationStatus the handler builds from a parsed update.
GenerationStatusOf(statusUpdate, time) ==
    LET mappedStatus == mapGitHubStatus(statusUpdate.status) IN
    [clientId |-> statusUpdate.client_name,
     status |-> mappedStatus.status,
     progress |-> mappedStatus.progress,
     currentStep |-> mappedStatus.currentStep,
     message |-> statusUpdate.message,
     previewUrl |-> statusUpdate.preview_url,
     repositoryUrl |-> statusUpdate.pr_url,
     error |-> statusUpdate.error,
     steps |-> mappedStatus.steps,
     estimatedTimeRemaining |-> calculateTimeRemaining(mappedStatus.progress),
     updatedAt |-> time]

\* Map.prototype.set
MapSet(map, key, value) ==
    [k \in DOMAIN map \cup {key} |-> IF k = key THEN value ELSE map[k]]

\* A write that keeps the optional fields of the record it replaces where the
\* new record has none.
statusStoreSet_Merge(map, key, value) ==
    MapSet(map, key,
           IF key \notin DOMAIN map THEN value
           ELSE [value EXCEPT
                   !.previewUrl = IF @ = Undefined THEN map[key].previewUrl ELSE @,
                   !.repositoryUrl = IF @ = Undefined THEN map[key].repositoryUrl ELSE @,
                   !.error = IF @ = Undefined THEN map[key].error ELSE @])

\* A write that replaces the whole map by the one entry.
statusStoreSet_SingleSlot(map, key, value) ==
    [k \in {key} |-> value]

\* statusStore.set(statusUpdate.client_name, generationStatus)
statusStoreSet(map, key, value) ==
    MapSet(map, key, value)

\* History: whether storing `statusUpdate` replaces a record of higher progress.
Regresses(map, statusUpdate) ==
    /\ statusUpdate.client_name \in DOMAIN map
    /\ map[statusUpdate.client_name].progress > mapGitHubStatus(statusUpdate.status).progress

\* The status code the handler answers a request with.
PostCode(req, secret) ==
    LET signature == IF req.header = Undefined THEN "" ELSE req.header
        verified  == verifyGitHubSignature(req.body.text, signature, secret)
    IN  IF Truthy(secret) /\ verified = "throws" THEN 500
        ELSE IF Truthy(secret) /\ verified = "false" THEN 401
        ELSE IF req.body.json # "object" THEN 500
        ELSE 200

PostBody(code) ==
    CASE code = 200 -> [text |-> "OK"]
      [] code = 401 -> [text |-> "Unauthorized"]
      [] OTHER      -> [text |-> "Internal Server Error"]

\* A webhook request arrives; the handler suspends at `await request.text()`.
PostReceive(body, header) ==
    /\ Cardinality(inflight) < MaxInflight
    /\ inflight' = inflight \cup {[body |-> body, header |-> header]}
    /\ UNCHANGED <<statusStore, webhookSecret, now, last, acked, genVars, fnVars, restVars, uiVars>>

\* The requests of `reqs` that carry an update for the client of `req`.
SameClient(reqs, req) ==
    {r \in reqs : r.body.json = "object"
                  /\ r.body.value.client_name = req.body.value.client_name}

\* The handler with the parsed update kept in a variable that the requests
\* share: the message stored is that of the request that arrived last.
PostProcess_SharedUpdate(req) ==
    LET code == PostCode(req, webhookSecret) IN
    /\ req \in inflight
    /\ inflight' = inflight \ {req}
    /\ IF code = 200
       THEN /\ statusStore' =
                 statusStoreSet(statusStore, req.body.value.client_name,
                    [GenerationStatusOf(req.body.value, now) EXCEPT
                       !.message = (CHOOSE r \in SameClient(inflight, req) : TRUE
                                   ).body.value.message])
            /\ acked' = MapSet(acked, req.body.value.client_name,
                   [update |-> req.body.value,
                    regressed |-> Regresses(statusStore, req.body.value)])
       ELSE UNCHANGED <<statusStore, acked>>
    /\ last' = [op |-> "POST",
                clientId |-> IF code = 200 THEN req.body.value.client_name ELSE Undefined,
                code |-> code, body |-> PostBody(code),
                pending |-> IF code = 200
                            THEN Cardinality(SameClient(inflight \ {req}, req)) ELSE 0]
    /\ UNCHANGED <<webhookSecret, now, genVars, fnVars, restVars, uiVars>>

\* The rest of the handler, which runs to completion without suspending.
PostProcess(req) ==
    LET code == PostCode(req, webhookSecret) IN
    /\ req \in inflight
    /\ inflight' = inflight \ {req}
    /\ IF code = 200
       THEN /\ statusStore' = statusStoreSet(statusStore, req.body.value.client_name,
                                             GenerationStatusOf(req.body.value, now))
            /\ acked' = MapSet(acked, req.body.value.client_name,
                   [update |-> req.body.value,
                    regressed |-> Regresses(statusStore, req.body.value)])
       ELSE UNCHANGED <<statusStore, acked>>
    /\ last' = [op |-> "POST",
                clientId |-> IF code = 200 THEN req.body.value.client_name ELSE Undefined,
                code |-> code, body |-> PostBody(code),
                pending |-> IF code = 200
                            THEN Cardinality(SameClient(inflight \ {req}, req)) ELSE 0]
    /\ UNCHANGED <<webhookSecret, now, genVars, fnVars, restVars, uiVars>>

\* ------------------------------------------------------------- GET handler
\* url.searchParams.get('clientId'): null when the parameter is missing.
QueryClientIds == ClientIds \cup {Undefined}

defaultStatus(clientId, time) ==
    [clientId |-> clientId,
     status |-> "starting",
     progress |-> 0,
     currentStep |-> "uploadLogo",
     message |-> "Initializing website generation...",
     previewUrl |-> Undefined,
     repositoryUrl |-> Undefined,
     error |-> Undefined,
     steps |-> [uploadLogo |-> "pending", analyzeLogo |-> "pending",
                generateTheme |-> "pending", createRepo |-> "pending",
                deployPreview |-> "pending"],
     estimatedTimeRemaining |-> 300,
     updatedAt |-> time]

\* The lookup that never finds the record.
GetResponse_IgnoresStore(map, clientId, time) ==
    IF ~Truthy(clientId)
    THEN [code |-> 400, body |-> [error |-> "clientId parameter is required"]]
    ELSE [code |-> 200, body |-> defaultStatus(clientId, time)]

GetResponse(map, clientId, time) ==
    IF ~Truthy(clientId)
    THEN [code |-> 400, body |-> [error |-> "clientId parameter is required"]]
    ELSE IF clientId \notin DOMAIN map
    THEN [code |-> 200, body |-> defaultStatus(clientId, time)]
    ELSE [code |-> 200, body |-> map[clientId]]

\* The query that stores the default it synthesizes.
GetStatus_PersistsDefault(clientId) ==
    LET r == GetResponse(statusStore, clientId, now) IN
    /\ last' = [op |-> "GET", clientId |-> clientId, code |-> r.code, body |-> r.body,
                pending |-> 0]
    /\ statusStore' = IF r.code = 200 THEN MapSet(statusStore, clientId, r.body)
                      ELSE statusStore
    /\ UNCHANGED <<webhookSecret, inflight, now, acked, genVars, fnVars, restVars, uiVars>>

\* The query that deletes the record it returns.
GetStatus_ConsumesRecord(clientId) ==
    LET r == GetResponse(statusStore, clientId, now) IN
    /\ last' = [op |-> "GET", clientId |-> clientId, code |-> r.code, body |-> r.body,
                pending |-> 0]
    /\ statusStore' = [k \in DOMAIN statusStore \ {clientId} |-> statusStore[k]]
    /\ UNCHANGED <<webhookSecret, inflight, now, acked, genVars, fnVars, restVars, uiVars>>

GetStatus(clientId) ==
    LET r == GetResponse(statusStore, clientId, now) IN
    /\ last' = [op |-> "GET", clientId |-> clientId, code |-> r.code, body |-> r.body,
                pending |-> 0]
    /\ UNCHANGED <<statusStore, webhookSecret, inflight, now, acked, genVars, fnVars, restVars, uiVars>>

\* --------------------------------------------------------- OPTIONS handler
Options ==
    /\ last' = [op |-> "OPTIONS", clientId |-> Undefined, code |-> 200,
                body |-> [text |-> ""], pending |-> 0]
    /\ UNCHANGED <<statusStore, webhookSecret, inflight, now, acked, genVars, fnVars, restVars, uiVars>>

\* The wall clock advances.
Tick ==
    /\ now < MaxClock
    /\ now' = now + 1
    /\ UNCHANGED <<serverVars, genVars, fnVars, restVars, uiVars>>

\* ------------------------------------------------------- string helpers
Char(s, i) == SubSeq(s, i, i)

Whitespace == {" ", "\t", "\n"}

UpperCase == "ABCDEFGHIJKLMNOPQRSTUVWXYZ"
LowerCase == "abcdefghijklmnopqrstuvwxyz"
DigitChars == {Char("0123456789", i) : i \in 1..10}
LowerAlnum == {Char(LowerCase, i) : i \in 1..26} \cup DigitChars

\* String.prototype.trim
RECURSIVE TrimStart(_)
TrimStart(s) ==
    IF Len(s) > 0 /\ Char(s, 1) \in Whitespace
    THEN TrimStart(SubSeq(s, 2, Len(s))) ELSE s

RECURSIVE TrimEnd(_)
TrimEnd(s) ==
    IF Len(s) > 0 /\ Char(s, Len(s)) \in Whitespace
    THEN TrimEnd(SubSeq(s, 1, Len(s) - 1)) ELSE s

Trim(s) == TrimEnd(TrimStart(s))

\* String.prototype.toLowerCase, one character
LowerChar(c) ==
    IF \E i \in 1..26 : Char(UpperCase, i) = c
    THEN Char(LowerCase, CHOOSE i \in 1..26 : Char(UpperCase, i) = c)
    ELSE c

\* businessName.toLowerCase().replace(/[^a-z0-9]/g, '-')
RECURSIVE CleanChars(_)
CleanChars(s) ==
    IF Len(s) = 0 THEN ""
    ELSE (IF LowerChar(Char(s, 1)) \in LowerAlnum THEN LowerChar(Char(s, 1)) ELSE "-")
         \o CleanChars(SubSeq(s, 2, Len(s)))

\* String.prototype.substr(0, n)
Substr0(s, n) == SubSeq(s, 1, IF Len(s) < n THEN Len(s) ELSE n)

\* Array.prototype.join(',')
RECURSIVE Join(_)
Join(items) ==
    IF Len(items) = 0 THEN ""
    ELSE IF Len(items) = 1 THEN items[1]
    ELSE items[1] \o "," \o Join(Tail(items))

\* ------------------------------------------------------- generateClientId
\* Date.now() at clock reading t
DateNow(t) == 1700000000 + t

\* Math.random().toString(36).substr(2, 6): up to six base-36 digits.
RandomSuffixes == {"ab12cd", "i"}

generateClientId_NoClean(businessName, time, random) ==
    Substr0(businessName, 10) \o "-" \o ToString(DateNow(time)) \o "-" \o random

generateClientId(businessName, time, random) ==
    Substr0(CleanChars(businessName), 10)
        \o "-" \o ToString(DateNow(time)) \o "-" \o random

\* ------------------------------------------------------- validateFormData
\* /^[^\s@]+@[^\s@]+\.[^\s@]+$/.test(email)
EmailMatches(email) ==
    \E i \in 2..Len(email) : \E j \in (i + 2)..(Len(email) - 1) :
        /\ Char(email, i) = "@"
        /\ Char(email, j) = "."
        /\ \A k \in (1..Len(email)) \ {i} : Char(email, k) \notin Whitespace \cup {"@"}

IsArray(v) == v.kind = "array"

validateFormData_NoServicesCheck(data) ==
    (IF ~Truthy(data.businessName) \/ Len(Trim(data.businessName)) < 2
     THEN <<"Business name is required and must be at least 2 characters">> ELSE <<>>)
    \o (IF ~Truthy(data.email) \/ ~EmailMatches(data.email)
        THEN <<"Valid email address is required">> ELSE <<>>)
    \o (IF ~Truthy(data.industry) \/ Len(Trim(data.industry)) < 2
        THEN <<"Industry is required">> ELSE <<>>)

validateFormData(data) ==
    (IF ~Truthy(data.businessName) \/ Len(Trim(data.businessName)) < 2
     THEN <<"Business name is required and must be at least 2 characters">> ELSE <<>>)
    \o (IF ~Truthy(data.email) \/ ~EmailMatches(data.email)
        THEN <<"Valid email address is required">> ELSE <<>>)
    \o (IF ~Truthy(data.industry) \/ Len(Trim(data.industry)) < 2
        THEN <<"Industry is required">> ELSE <<>>)
    \o (IF data.services.kind = "undefined" \/ ~IsArray(data.services)
           \/ Len(data.services.items) = 0
        THEN <<"At least one service must be specified">> ELSE <<>>)

\* ----------------------------------------------------- transformForGitHub
Site == "https://portal.test"

OrEmpty(v) == IF Truthy(v) THEN v ELSE ""

\* The payload with the business name in place of the client id.
transformForGitHub_NameAsClient(data, clientId) ==
    [business_name |-> data.businessName,
     business_description |-> OrEmpty(data.description),
     industry |-> data.industry,
     target_audience |-> OrEmpty(data.targetAudience),
     services |-> Join(data.services.items),
     contact_info |-> "email=" \o data.email
                      \o (IF Truthy(data.phone) THEN ",phone=" \o data.phone ELSE ""),
     client_name |-> data.businessName,
     metadata |-> [website_domain |-> OrEmpty(data.domain),
                   logo_url |-> OrEmpty(data.logoUrl),
                   custom_colors |-> ""],
     webhook_url |-> Site \o "/api/webhooks/github-status"]

transformForGitHub(data, clientId) ==
    [business_name |-> data.businessName,
     business_description |-> OrEmpty(data.description),
     industry |-> data.industry,
     target_audience |-> OrEmpty(data.targetAudience),
     services |-> Join(data.services.items),
     contact_info |-> "email=" \o data.email
                      \o (IF Truthy(data.phone) THEN ",phone=" \o data.phone ELSE ""),
     client_name |-> clientId,
     metadata |-> [website_domain |-> OrEmpty(data.domain),
                   logo_url |-> OrEmpty(data.logoUrl),
                   custom_colors |-> ""],
     webhook_url |-> Site \o "/api/webhooks/github-status"]

\* ------------------------------------------------------ generate requests
\* A JSON value of the `services` field: absent, a string, or an array.
ServicesInputs ==
    { [kind |-> "undefined", items |-> <<>>],
      [kind |-> "string", items |-> <<>>],
      [kind |-> "array", items |-> <<>>],
      [kind |-> "array", items |-> <<"x">>],
      [kind |-> "array", items |-> <<"web design", "seo">>] }

BusinessNameInputs ==
    {Undefined, "A", " B ", "Ab", "Acme Corp", "  Acme & Sons Bakery"}

EmailInputs == {Undefined, "a@b.com", "a@b", "ab.com", "a b@c.de", "@b.com"}

IndustryInputs == {Undefined, "T", "Tech"}

\* The optional fields of the form, all absent or all given.
OptionalInputs ==
    { [description |-> Undefined, targetAudience |-> Undefined, phone |-> Undefined,
       domain |-> Undefined, logoUrl |-> Undefined],
      [description |-> "Bakery", targetAudience |-> "Locals", phone |-> "555-0100",
       domain |-> "acme.test", logoUrl |-> "https://cdn.test/logo.png"] }

FormInputs ==
    { [businessName |-> n, email |-> e, industry |-> i, services |-> sv,
       description |-> o.description, targetAudience |-> o.targetAudience,
       phone |-> o.phone, domain |-> o.domain, logoUrl |-> o.logoUrl] :
      n \in BusinessNameInputs, e \in EmailInputs, i \in IndustryInputs,
      sv \in ServicesInputs, o \in OptionalInputs }

\* What request.json() yields: the form object, or a SyntaxError.
GenerateBodies ==
    { [json |-> "object", value |-> f] : f \in FormInputs }
    \cup { [json |-> "invalid", value |-> Undefined] }

\* error.message of the SyntaxError request.json() throws, and of the
\* TypeError a rejected fetch throws.
SyntaxErrorMessage == "Unexpected token in JSON"

FetchErrorMessage == "fetch failed"

\* What the repository-dispatch call comes to: a response with a status, or a
\* rejected fetch (network failure).
DispatchOutcomes ==
    { [kind |-> "response", status |-> 204, statusText |-> "No Content"],
      [kind |-> "response", status |-> 401, statusText |-> "Unauthorized"],
      [kind |-> "response", status |-> 422, statusText |-> "Unprocessable Entity"],
      [kind |-> "error", status |-> 0, statusText |-> FetchErrorMessage] }

ResponseOk(status) == status >= 200 /\ status <= 299

NoResponse == [code |-> 0, body |-> [text |-> ""]]

NoOutcome == [kind |-> "none", status |-> 0, statusText |-> ""]

GenIdle == [pc |-> "idle", body |-> [json |-> "none", value |-> Undefined],
            clientId |-> Undefined, githubResponse |-> NoOutcome,
            response |-> NoResponse]

\* -------------------------------------------------- POST /generate handler
\* A request arrives: the token check, then `await request.json()`.
GenerateReceive(body) ==
    /\ gen.pc \in {"idle", "done"}
    /\ dispatched' = <<>>
    /\ IF ~Truthy(githubToken)
       THEN gen' = [pc |-> "done", body |-> body, clientId |-> Undefined,
                    githubResponse |-> NoOutcome,
                    response |->
                      [code |-> 500,
                       body |-> [success |-> FALSE,
                                 error |-> "GitHub token configuration missing",
                                 details |-> "Server configuration error - GitHub token not available"]]]
       ELSE gen' = [pc |-> "parse", body |-> body, clientId |-> Undefined,
                    githubResponse |-> NoOutcome, response |-> NoResponse]
    /\ UNCHANGED <<githubToken, now, serverVars, fnVars, restVars, uiVars>>

\* The body is read: validation, the client id, and the dispatch call is sent
\* (`await fetch(...)`).
GenerateParse(random) ==
    /\ gen.pc = "parse"
    /\ IF gen.body.json # "object"
       THEN /\ gen' = [gen EXCEPT !.pc = "done",
                         !.response =
                           [code |-> 500,
                            body |-> [success |-> FALSE,
                                      error |-> "Internal server error",
                                      details |-> SyntaxErrorMessage]]]
            /\ UNCHANGED dispatched
       ELSE LET formData == gen.body.value
                validationErrors == validateFormData(formData)
                clientId == generateClientId(formData.businessName, now, random)
            IN  IF Len(validationErrors) > 0
                THEN /\ gen' = [gen EXCEPT !.pc = "done",
                                  !.response =
                                    [code |-> 400,
                                     body |-> [success |-> FALSE,
                                               error |-> "Validation failed",
                                               details |-> validationErrors]]]
                     /\ UNCHANGED dispatched
                ELSE /\ gen' = [gen EXCEPT !.pc = "dispatch", !.clientId = clientId]
                     /\ dispatched' = Append(dispatched,
                           [event_type |-> "generate-client-site",
                            authorization |-> "Bearer " \o githubToken,
                            client_payload |-> transformForGitHub(formData, clientId)])
    /\ UNCHANGED <<githubToken, now, serverVars, fnVars, restVars, uiVars>>

\* The handler that takes every answer of the dispatch API for a success.
GenerateDispatched_IgnoresOk(outcome) ==
    /\ gen.pc = "dispatch"
    /\ gen' = [gen EXCEPT !.pc = "done",
                 !.githubResponse = outcome,
                 !.response =
                   IF outcome.kind = "error"
                   THEN [code |-> 500,
                         body |-> [success |-> FALSE,
                                   error |-> "Internal server error",
                                   details |-> outcome.statusText]]
                   ELSE [code |-> 200,
                         body |-> [success |-> TRUE,
                                   clientId |-> gen.clientId,
                                   message |-> "Website generation started successfully",
                                   estimatedTime |-> 300,
                                   statusUrl |-> "/api/status/" \o gen.clientId]]]
    /\ UNCHANGED <<githubToken, dispatched, now, serverVars, fnVars, restVars, uiVars>>

\* The dispatch call settles.
GenerateDispatched(outcome) ==
    /\ gen.pc = "dispatch"
    /\ gen' = [gen EXCEPT !.pc = "done",
                 !.githubResponse = outcome,
                 !.response =
                   IF outcome.kind = "error"
                   THEN [code |-> 500,
                         body |-> [success |-> FALSE,
                                   error |-> "Internal server error",
                                   details |-> outcome.statusText]]
                   ELSE IF ~ResponseOk(outcome.status)
                   THEN [code |-> 500,
                         body |-> [success |-> FALSE,
                                   error |-> "Failed to trigger website generation",
                                   details |-> "GitHub API returned "
                                               \o ToString(outcome.status) \o ": "
                                               \o outcome.statusText]]
                   ELSE [code |-> 200,
                         body |-> [success |-> TRUE,
                                   clientId |-> gen.clientId,
                                   message |-> "Website generation started successfully",
                                   estimatedTime |-> 300,
                                   statusUrl |-> "/api/status/" \o gen.clientId]]]
    /\ UNCHANGED <<githubToken, dispatched, now, serverVars, fnVars, restVars, uiVars>>

\* ------------------------------------------ GET /api/status/[clientId]
AliasIdle == [pc |-> "idle", clientId |-> Undefined, response |-> NoResponse]

\* A request arrives: params.clientId is checked, then the handler forwards
\* the query with `await fetch(url)`.
AliasReceive(clientId) ==
    /\ alias.pc \in {"idle", "done"}
    /\ IF ~Truthy(clientId)
       THEN alias' = [pc |-> "done", clientId |-> clientId,
                      response |-> [code |-> 400,
                                    body |-> [error |-> "Client ID is required"]]]
       ELSE alias' = [pc |-> "fetch", clientId |-> clientId, response |-> NoResponse]
    /\ UNCHANGED <<serverVars, now, genVars, fnVars, poller, maxRetryAttempts, uiVars>>

\* The forwarded query is served by the webhook endpoint's GET, and the alias
\* answers with the status and the body text it got.
AliasForwarded ==
    LET r == GetResponse(statusStore, alias.clientId, now) IN
    /\ alias.pc = "fetch"
    /\ last' = [op |-> "GET", clientId |-> alias.clientId, code |-> r.code,
                body |-> r.body, pending |-> 0]
    /\ alias' = [alias EXCEPT !.pc = "done",
                                !.response = [code |-> r.code, body |-> r.body]]
    /\ UNCHANGED <<statusStore, webhookSecret, inflight, acked, now, genVars, fnVars,
                   poller, maxRetryAttempts, uiVars>>

\* The forwarded query fails (fetch rejects): the catch answers 500.
AliasFetchFailed ==
    /\ alias.pc = "fetch"
    /\ alias' = [alias EXCEPT !.pc = "done",
                                !.response = [code |-> 500,
                                              body |-> [error |-> "Internal server error"]]]
    /\ UNCHANGED <<serverVars, now, genVars, fnVars, poller, maxRetryAttempts, uiVars>>

\* ------------------------------------------------- the status poller
\* The statuses a record carries (GenerationStatus.status).
PollStatuses == {"starting", "in-progress", "completed", "error"}

\* What one GET /api/status/{clientId} comes to: a record, an error response,
\* or a rejected fetch.
PollOutcomes ==
    { [kind |-> "response", httpStatus |-> 200, status |-> s] : s \in PollStatuses }
    \cup { [kind |-> "response", httpStatus |-> c, status |-> Undefined] :
             c \in {400, 404, 500} }
    \cup { [kind |-> "rejected", httpStatus |-> 0, status |-> Undefined] }

\* An error's status is 0 where the ApiClientError has none.
NoError == [status |-> 0, code |-> "none"]

\* handleResponse: the parsed record, or an ApiClientError with the response's
\* status.
handleResponse(response) ==
    IF ~ResponseOk(response.httpStatus)
    THEN [ok |-> FALSE,
          error |-> [status |-> response.httpStatus,
                     code |-> ToString(response.httpStatus)]]
    ELSE [ok |-> TRUE, data |-> [status |-> response.status]]

\* api.getStatus: handleResponse of the response; a rejected fetch becomes an
\* ApiClientError without status, code NETWORK_ERROR.
getStatus(outcome) ==
    IF outcome.kind = "rejected"
    THEN [ok |-> FALSE, error |-> [status |-> 0, code |-> "NETWORK_ERROR"]]
    ELSE handleResponse(outcome)

DefaultMaxRetryAttempts == 3

\* parseInt(PUBLIC_MAX_RETRY_ATTEMPTS || '3') for the variable unset, and set
\* to 1 and to 6.
RetryAttemptsConfigs == {DefaultMaxRetryAttempts, 1, 6}

Min(a, b) == IF a <= b THEN a ELSE b

\* The backoff without its cap.
retryDelay_Uncapped(attemptIndex) ==
    1000 * 2^attemptIndex

\* retryDelay: (attemptIndex) => Math.min(1000 * 2 ** attemptIndex, 30000)
retryDelay(attemptIndex) ==
    Min(1000 * 2^attemptIndex, 30000)

\* Whether a failed poll is tried again: never after a 4xx answer, otherwise
\* while fewer than `retry` retries were made.
ShouldRetry(failureCount, error, retry) ==
    IF error.status >= 400 /\ error.status <= 499
    THEN FALSE
    ELSE failureCount < retry

PollIntervalMs == 5000

\* The interval that stops on 'completed' and 'failed' only.
refetchInterval_StopsOnFailed(status) ==
    IF status \in {"completed", "failed"} THEN 0 ELSE PollIntervalMs

\* The polling interval for the last observed status; 0: polling is off.
refetchInterval(status) ==
    IF status \in {"completed", "error"} THEN 0 ELSE PollIntervalMs

\* pc: "idle" between polls, "inflight" with a request out, "backoff" before a
\* retry. inFlight counts the requests out; waited is the last backoff delay;
\* error is the error surfaced to the caller; history: lastError, the error of
\* the last settled request, and joined, whether the interval elapsed during
\* the current poll.
PollIdle == [pc |-> "idle", status |-> "none", failureCount |-> 0, inFlight |-> 0,
             waited |-> 0, error |-> NoError, lastError |-> NoError,
             joined |-> FALSE]

\* The interval elapses with a poll still running, and starts another request.
PollInterval_NoDedupe ==
    /\ refetchInterval(poller.status) > 0
    /\ poller' = [poller EXCEPT !.pc = "inflight", !.failureCount = 0,
                                 !.inFlight = @ + 1, !.waited = 0,
                                 !.joined = poller.pc # "idle"]
    /\ UNCHANGED <<serverVars, now, genVars, fnVars, alias, maxRetryAttempts, uiVars>>

\* The interval elapses: a new poll is issued, unless one is still running
\* (the running one is joined).
PollInterval ==
    /\ refetchInterval(poller.status) > 0
    /\ IF poller.pc = "idle"
       THEN poller' = [poller EXCEPT !.pc = "inflight", !.failureCount = 0,
                                     !.inFlight = @ + 1, !.waited = 0,
                                     !.joined = FALSE]
       ELSE poller' = [poller EXCEPT !.joined = TRUE]
    /\ UNCHANGED <<serverVars, now, genVars, fnVars, alias, maxRetryAttempts, uiVars>>

\* The request settles: data, a retry after a backoff, or a surfaced error.
PollSettle(outcome) ==
    LET r == getStatus(outcome) IN
    /\ poller.pc = "inflight"
    /\ IF r.ok
       THEN poller' = [poller EXCEPT !.pc = "idle", !.status = r.data.status,
                                     !.inFlight = @ - 1, !.failureCount = 0,
                                     !.error = NoError, !.lastError = NoError]
       ELSE IF ShouldRetry(poller.failureCount, r.error, maxRetryAttempts)
       THEN poller' = [poller EXCEPT !.pc = "backoff", !.inFlight = @ - 1,
                                     !.failureCount = @ + 1,
                                     !.waited = retryDelay(poller.failureCount),
                                     !.lastError = r.error]
       ELSE poller' = [poller EXCEPT !.pc = "idle", !.inFlight = @ - 1,
                                     !.error = r.error, !.lastError = r.error]
    /\ UNCHANGED <<serverVars, now, genVars, fnVars, alias, maxRetryAttempts, uiVars>>

\* The backoff delay is over: the request is sent again.
PollRetry ==
    /\ poller.pc = "backoff"
    /\ poller' = [poller EXCEPT !.pc = "inflight", !.inFlight = @ + 1]
    /\ UNCHANGED <<serverVars, now, genVars, fnVars, alias, maxRetryAttempts, uiVars>>

\* ------------------------------------------------------------ useWebSocket
\* Pending reconnection timers at the same time, and the largest value the
\* attempt counter takes.
MaxPendingTimers == 2
MaxAttemptCount == 7

\* DEFAULT_OPTIONS.reconnectionAttempts
reconnectionAttempts == 5

\* The reasons of a 'disconnect' event that the server or the transport
\* causes, and the errors of a 'connect_error' event (by error.type).
DisconnectReasons == {"transport close", "io server disconnect"}
ConnectErrors == {"TransportError", "UnauthorizedError"}

\* formatSocketError for an error object that carries a type only
formatSocketError(errorType) ==
    IF errorType = "TransportError"
    THEN "Connection failed - please check your internet connection"
    ELSE IF errorType = "TimeoutError"
    THEN "Connection timed out - please try again"
    ELSE "An unexpected connection error occurred"

isRecoverableError(errorType) ==
    errorType \notin {"ParseError", "UnauthorizedError", "ForbiddenError"}

InitialConnectionState ==
    [isConnected |-> FALSE, isConnecting |-> FALSE, isReconnecting |-> FALSE,
     error |-> "null", retryCount |-> 0]

\* The hook before its mount effect has run.
\*   socket         the `socket` state (null, or the socket the hook created)
\*   closureSocket  `socket` as the handleReconnection that the socket's
\*                  handlers call closed over it
\*   cleanupSocket  `socket` as the mount effect's cleanup closed over it
\*   conn, autoRetry, listeners   the created socket: its connection, whether
\*                  socket.io retries by itself, whether handlers are attached
\*   pending        the reconnection timers set and neither fired nor cleared
\*   refTimer       the timer reconnectTimeoutRef holds: null, pending, fired
\*   manualPending  reconnect()'s 100 ms timer is pending
\* history: lastOp, and for the last step connectCalled (socket.connect() was
\* called), scheduled (a reconnection timer was set), stateUpdated
\* (setConnectionState was called); sinceConnect and sinceReset count the
\* timers set since the last successful connect and since the last reset of
\* the attempt counter, up to reconnectionAttempts + 1.
WsIdle(autoConnect) ==
    [phase |-> "initial", autoConnect |-> autoConnect, mountedRef |-> TRUE,
     socket |-> "null", closureSocket |-> "null", cleanupSocket |-> "null",
     conn |-> "none", autoRetry |-> FALSE, listeners |-> FALSE,
     reconnectAttempt |-> 0, pending |-> 0, refTimer |-> "null",
     manualPending |-> FALSE,
     connectionState |-> InitialConnectionState,
     lastOp |-> "none", connectCalled |-> FALSE, scheduled |-> FALSE,
     stateUpdated |-> FALSE, sinceConnect |-> 0, sinceReset |-> 0]

\* A handler starts: the per-step history is reset.
Begin(w, op) ==
    [w EXCEPT !.lastOp = op, !.connectCalled = FALSE, !.scheduled = FALSE,
              !.stateUpdated = FALSE]

updateConnectionState(w, updates) ==
    IF ~w.mountedRef THEN w
    ELSE [w EXCEPT !.connectionState = Spread(@, updates), !.stateUpdated = TRUE]

clearReconnectTimeout(w) ==
    IF w.refTimer = "null" THEN w
    ELSE [w EXCEPT !.pending = IF w.refTimer = "pending" THEN @ - 1 ELSE @,
                   !.refTimer = "null"]

Saturate(n) == IF n > reconnectionAttempts THEN reconnectionAttempts + 1 ELSE n

\* The handler that never gives up.
handleReconnection_NoLimit(w) ==
    IF ~w.mountedRef THEN w
    ELSE LET w1 == [w EXCEPT !.reconnectAttempt = @ + 1]
             w2 == updateConnectionState(w1,
                       [isReconnecting |-> TRUE, retryCount |-> w1.reconnectAttempt])
         IN  [w2 EXCEPT !.pending = @ + 1, !.refTimer = "pending",
                        !.scheduled = TRUE,
                        !.sinceConnect = Saturate(@ + 1),
                        !.sinceReset = Saturate(@ + 1)]

\* handleReconnection, config.reconnection being true; the timer it sets
\* replaces the one the ref held, which stays pending if it was.
handleReconnection(w) ==
    IF ~w.mountedRef THEN w
    ELSE LET w1 == [w EXCEPT !.reconnectAttempt = @ + 1] IN
         IF w1.reconnectAttempt > reconnectionAttempts
         THEN updateConnectionState(w1,
                  [isReconnecting |-> FALSE,
                   error |-> "Maximum reconnection attempts exceeded"])
         ELSE LET w2 == updateConnectionState(w1,
                           [isReconnecting |-> TRUE,
                            retryCount |-> w1.reconnectAttempt])
              IN  [w2 EXCEPT !.pending = @ + 1, !.refTimer = "pending",
                             !.scheduled = TRUE,
                             !.sinceConnect = Saturate(@ + 1),
                             !.sinceReset = Saturate(@ + 1)]

\* socket.connect() on the created socket: opens it unless it is open or
\* opening.
SocketConnect(w) ==
    [w EXCEPT !.conn = IF @ = "disconnected" THEN "connecting" ELSE @,
              !.autoRetry = FALSE,
              !.connectCalled = TRUE]

\* `s?.connect()` for a value s of the `socket` state
OptionalConnect(w, s) == IF s = "set" THEN SocketConnect(w) ELSE w

\* The 'disconnect' listener
OnDisconnect(w, reason) ==
    IF ~w.listeners \/ ~w.mountedRef THEN w
    ELSE LET w1 == updateConnectionState(w,
                       [isConnected |-> FALSE, isConnecting |-> FALSE])
         IN  IF reason # "io client disconnect" THEN handleReconnection(w1) ELSE w1

\* socket.disconnect() on the created socket: closes it and, if it was
\* connected, emits 'disconnect' with reason 'io client disconnect'.
SocketDisconnect(w) ==
    LET w1 == [w EXCEPT !.conn = "disconnected", !.autoRetry = FALSE] IN
    IF w.conn = "connected" THEN OnDisconnect(w1, "io client disconnect") ELSE w1

\* initializeSocket followed by setSocket(newSocket); newSocket.connect()
InitializeAndConnect(w) ==
    IF ~w.mountedRef THEN w
    ELSE LET w1 == updateConnectionState(w, [isConnecting |-> TRUE, error |-> "null"])
             w2 == [w1 EXCEPT !.closureSocket = w.socket, !.conn = "disconnected",
                              !.listeners = TRUE, !.socket = "set"]
         IN  SocketConnect(w2)

WsFrame == UNCHANGED <<serverVars, now, genVars, fnVars, restVars, form, prog>>

\* The mount effect.
WsMount ==
    /\ ws.phase = "initial"
    /\ LET w0 == [Begin(ws, "mount") EXCEPT !.phase = "mounted", !.mountedRef = TRUE,
                                            !.cleanupSocket = ws.socket]
       IN  ws' = IF ws.autoConnect THEN InitializeAndConnect(w0) ELSE w0
    /\ WsFrame

\* The mount effect's cleanup.
WsUnmount ==
    /\ ws.phase = "mounted"
    /\ LET w0 == [Begin(ws, "unmount") EXCEPT !.phase = "unmounted", !.mountedRef = FALSE]
           w1 == clearReconnectTimeout(w0)
       IN  ws' = IF ws.cleanupSocket = "set"
                 THEN SocketDisconnect([w1 EXCEPT !.listeners = FALSE])
                 ELSE w1
    /\ WsFrame

\* connect(), called by the component
WsConnect ==
    /\ ws.phase = "mounted"
    /\ LET w0 == Begin(ws, "connect()") IN
       ws' = IF ws.socket = "set" /\ ws.conn = "connected" THEN w0
             ELSE IF ws.socket = "null" THEN InitializeAndConnect(w0)
             ELSE SocketConnect(w0)
    /\ WsFrame

\* disconnect(), called by the component
WsDisconnect ==
    /\ ws.phase = "mounted"
    /\ LET w0 == clearReconnectTimeout(Begin(ws, "disconnect()"))
           w1 == [w0 EXCEPT !.reconnectAttempt = 0, !.sinceReset = 0]
       IN  ws' = IF ws.socket = "set"
                 THEN updateConnectionState(SocketDisconnect(w1),
                          [isConnected |-> FALSE, isConnecting |-> FALSE,
                           isReconnecting |-> FALSE])
                 ELSE w1
    /\ WsFrame

\* reconnect(), called by the component
WsReconnect ==
    /\ ws.phase = "mounted"
    /\ LET w0 == [Begin(ws, "reconnect()") EXCEPT !.reconnectAttempt = 0, !.sinceReset = 0]
           w1 == clearReconnectTimeout(w0)
       IN  ws' = IF ws.socket = "set"
                 THEN [SocketDisconnect(w1) EXCEPT !.manualPending = TRUE]
                 ELSE InitializeAndConnect(w1)
    /\ WsFrame

\* reconnect()'s 100 ms timer fires.
WsManualTimer ==
    /\ ws.manualPending
    /\ LET w0 == [Begin(ws, "manual timer") EXCEPT !.manualPending = FALSE] IN
       ws' = IF ws.mountedRef THEN SocketConnect(w0) ELSE w0
    /\ WsFrame

\* The socket connects: the 'connect' listener.
WsOnConnect ==
    /\ ws.conn = "connecting"
    /\ LET w0 == [Begin(ws, "connect") EXCEPT !.conn = "connected"] IN
       ws' = IF ~ws.listeners \/ ~ws.mountedRef THEN w0
             ELSE updateConnectionState(
                      clearReconnectTimeout(
                          [w0 EXCEPT !.reconnectAttempt = 0, !.sinceReset = 0,
                                     !.sinceConnect = 0]),
                      [isConnected |-> TRUE, isConnecting |-> FALSE,
                       isReconnecting |-> FALSE, error |-> "null", retryCount |-> 0])
    /\ WsFrame

\* The connection is lost: the 'disconnect' listener.
WsOnDisconnect(reason) ==
    /\ ws.conn = "connected"
    /\ ws.pending < MaxPendingTimers
    /\ ws.reconnectAttempt < MaxAttemptCount
    /\ ws' = OnDisconnect([Begin(ws, "disconnect") EXCEPT
                              !.conn = "disconnected",
                              !.autoRetry = (reason # "io server disconnect")],
                          reason)
    /\ WsFrame

\* A connection attempt fails: the 'connect_error' listener.
WsOnConnectError(errorType) ==
    /\ ws.conn = "connecting"
    /\ ws.pending < MaxPendingTimers
    /\ ws.reconnectAttempt < MaxAttemptCount
    /\ LET w0 == [Begin(ws, "connect_error") EXCEPT !.conn = "disconnected",
                                                    !.autoRetry = TRUE] IN
       ws' = IF ~ws.listeners \/ ~ws.mountedRef THEN w0
             ELSE LET w1 == updateConnectionState(w0,
                               [isConnected |-> FALSE, isConnecting |-> FALSE,
                                error |-> formatSocketError(errorType)])
                  IN  IF isRecoverableError(errorType) THEN handleReconnection(w1)
                      ELSE w1
    /\ WsFrame

\* socket.io opens the socket again by itself (option reconnection).
WsManagerRetry ==
    /\ ws.conn = "disconnected"
    /\ ws.autoRetry
    /\ ws' = [Begin(ws, "manager retry") EXCEPT !.conn = "connecting"]
    /\ WsFrame

\* A reconnection timer fires: the one the ref holds, or one it lost.
WsTimerFires(held) ==
    /\ IF held THEN ws.refTimer = "pending"
       ELSE ws.pending > (IF ws.refTimer = "pending" THEN 1 ELSE 0)
    /\ LET w0 == [Begin(ws, "timer") EXCEPT
                     !.pending = @ - 1,
                     !.refTimer = IF held THEN "fired" ELSE @] IN
       ws' = IF ~ws.mountedRef THEN w0 ELSE OptionalConnect(w0, ws.closureSocket)
    /\ WsFrame

\* ----------------------------------------------------------- GeneratorForm
\* A File | null value of the logo field.
NoFile == [kind |-> "null", type |-> "", size |-> 0]

QuestionIds ==
    {"service", "targetAudience", "industry", "coreServices", "logo", "email",
     "phone", "domain"}

\* The component after its first render. history: lastOp, the handler that ran
\* last.
FormIdle ==
    [currentStep |-> 0,
     formData |-> [service |-> "", targetAudience |-> "", industry |-> "",
                   coreServices |-> "", logo |-> NoFile, email |-> "",
                   phone |-> "", domain |-> ""],
     errors |-> [q \in QuestionIds |-> Undefined],
     isSubmitting |-> FALSE,
     isGenerating |-> FALSE,
     clientId |-> "null",
     lastOp |-> "none"]

\* ------------------------------------------------------ useGenerationProgress
\* options.clientId of the component that uses the hook
HookClientId == "acme-1"

NoEvent == [type |-> "none"]

\* The hook after its first render. Percentages are held in halves of a
\* percent (Pct(100) is 100 %), as half a step weight need not be whole.
\* isConnected is the connection state useWebSocket reports; history: lastOp
\* and lastEvent, the handler that ran last and the event it was given.
ProgIdle ==
    [isConnected |-> FALSE,
     progressState |->
        [clientId |-> HookClientId,
         status |-> "starting",
         progress |-> 0,
         message |-> "Initializing website generation...",
         currentStep |-> "uploadLogo",
         steps |-> [uploadLogo |-> "pending", analyzeLogo |-> "pending",
                    generateTheme |-> "pending", createRepo |-> "pending",
                    deployPreview |-> "pending"]],
     lastOp |-> "none",
     lastEvent |-> NoEvent]

\* --------------------------------------------------------- pure functions
ProgressInputs == (0 - ProgressSlack)..(100 + ProgressSlack)

FnIdle == [fn |-> "none", arg |-> Undefined]
NoResult == [done |-> FALSE]

ApplyMapGitHubStatus ==
    /\ fnIn.fn = "mapGitHubStatus"
    /\ ~fnOut.done
    /\ fnOut' = [done |-> TRUE, value |-> mapGitHubStatus(fnIn.arg)]
    /\ UNCHANGED <<fnIn, now, serverVars, genVars, restVars, uiVars>>

ApplyCalculateTimeRemaining ==
    /\ fnIn.fn = "calculateTimeRemaining"
    /\ ~fnOut.done
    /\ fnOut' = [done |-> TRUE, value |-> calculateTimeRemaining(fnIn.arg)]
    /\ UNCHANGED <<fnIn, now, serverVars, genVars, restVars, uiVars>>

\* ---------------------------------------------------------- specifications
ServerInit ==
    /\ statusStore = <<>>
    /\ inflight = {}
    /\ last = [op |-> "none", clientId |-> Undefined, code |-> 0, body |-> [text |-> ""],
               pending |-> 0]
    /\ acked = <<>>

GenInit ==
    /\ gen = GenIdle
    /\ dispatched = <<>>

FnInit ==
    /\ fnIn = FnIdle
    /\ fnOut = NoResult

AliasInit == alias = AliasIdle

PollInit ==
    /\ poller = PollIdle
    /\ maxRetryAttempts = DefaultMaxRetryAttempts

UiInit ==
    /\ ws = WsIdle(TRUE)
    /\ form = FormIdle
    /\ prog = ProgIdle

\* The webhook receiver and the status query.
Init ==
    /\ ServerInit
    /\ webhookSecret \in {Undefined} \cup Secrets
    /\ now = 0
    /\ GenInit
    /\ githubToken = "ghp_token"
    /\ FnInit
    /\ AliasInit
    /\ PollInit
    /\ UiInit

Next ==
    \/ \E body \in Bodies : \E header \in SignatureHeaders(body.text) :
          PostReceive(body, header)
    \/ \E req \in inflight : PostProcess(req)
    \/ \E clientId \in QueryClientIds : GetStatus(clientId)
    \/ Options
    \/ Tick

Spec == Init /\ [][Next]_vars

\* The generation trigger.
InitGenerate ==
    /\ ServerInit
    /\ webhookSecret = Undefined
    /\ now = 0
    /\ GenInit
    /\ githubToken \in {Undefined, "ghp_token"}
    /\ FnInit
    /\ AliasInit
    /\ PollInit
    /\ UiInit

NextGenerate ==
    \/ \E body \in GenerateBodies : GenerateReceive(body)
    \/ \E random \in RandomSuffixes : GenerateParse(random)
    \/ \E outcome \in DispatchOutcomes : GenerateDispatched(outcome)
    \/ Tick

SpecGenerate == InitGenerate /\ [][NextGenerate]_vars

\* The status alias next to the webhook receiver and the direct query.
InitAlias ==
    /\ ServerInit
    /\ webhookSecret = Undefined
    /\ now = 0
    /\ GenInit
    /\ githubToken = "ghp_token"
    /\ FnInit
    /\ AliasInit
    /\ PollInit
    /\ UiInit

NextAlias ==
    \/ \E body \in Bodies : PostReceive(body, Undefined)
    \/ \E req \in inflight : PostProcess(req)
    \/ \E clientId \in QueryClientIds : GetStatus(clientId)
    \/ \E clientId \in QueryClientIds : AliasReceive(clientId)
    \/ AliasForwarded
    \/ AliasFetchFailed
    \/ Tick

SpecAlias == InitAlias /\ [][NextAlias]_vars

\* One tracking session of the status poller.
InitPoll ==
    /\ ServerInit
    /\ webhookSecret = Undefined
    /\ now = 0
    /\ GenInit
    /\ githubToken = "ghp_token"
    /\ FnInit
    /\ AliasInit
    /\ poller = PollIdle
    /\ maxRetryAttempts \in RetryAttemptsConfigs
    /\ UiInit

NextPoll ==
    \/ PollInterval
    \/ \E outcome \in PollOutcomes : PollSettle(outcome)
    \/ PollRetry

SpecPoll == InitPoll /\ [][NextPoll]_vars

\* The same session with the timer firing and every request settling.
SpecPollFair ==
    /\ InitPoll /\ [][NextPoll]_vars
    /\ WF_vars(PollInterval)
    /\ WF_vars(\E outcome \in PollOutcomes : PollSettle(outcome))
    /\ WF_vars(PollRetry)

\* The webhook receiver with complete and incomplete bodies, unsigned.
InitLoose ==
    /\ ServerInit
    /\ webhookSecret = Undefined
    /\ now = 0
    /\ GenInit
    /\ githubToken = "ghp_token"
    /\ FnInit
    /\ AliasInit
    /\ PollInit
    /\ UiInit

NextLoose ==
    \/ \E body \in Bodies \cup IncompleteBodies : PostReceive(body, Undefined)
    \/ \E req \in inflight : PostProcess(req)
    \/ \E clientId \in QueryClientIds : GetStatus(clientId)

SpecLoose == InitLoose /\ [][NextLoose]_vars

\* The pure functions, each applied to one input.
InitFn ==
    /\ ServerInit
    /\ webhookSecret = Undefined
    /\ now = 0
    /\ GenInit
    /\ githubToken = "ghp_token"
    /\ fnIn \in { [fn |-> "mapGitHubStatus", arg |-> g] : g \in GithubStatusInputs }
                \cup { [fn |-> "calculateTimeRemaining", arg |-> p] : p \in ProgressInputs }
    /\ fnOut = NoResult
    /\ AliasInit
    /\ PollInit
    /\ UiInit

NextFn ==
    \/ ApplyMapGitHubStatus
    \/ ApplyCalculateTimeRemaining

SpecFn == InitFn /\ [][NextFn]_vars

\* One component using useWebSocket, the socket it creates and socket.io.
InitSocket ==
    /\ ServerInit
    /\ webhookSecret = Undefined
    /\ now = 0
    /\ GenInit
    /\ githubToken = "ghp_token"
    /\ FnInit
    /\ AliasInit
    /\ PollInit
    /\ ws \in {WsIdle(autoConnect) : autoConnect \in BOOLEAN}
    /\ form = FormIdle
    /\ prog = ProgIdle

NextSocket ==
    \/ WsMount
    \/ WsUnmount
    \/ WsConnect
    \/ WsDisconnect
    \/ WsReconnect
    \/ WsManualTimer
    \/ WsOnConnect
    \/ \E reason \in DisconnectReasons : WsOnDisconnect(reason)
    \/ \E errorType \in ConnectErrors : WsOnConnectError(errorType)
    \/ WsManagerRetry
    \/ \E held \in BOOLEAN : WsTimerFires(held)

SpecSocket == InitSocket /\ [][NextSocket]_vars

\* =================================================================== claims
\* The step ids of the design document, in its order (upload, analyze,
\* generate-theme, create-repo, deploy-preview), under the names the code gives
\* them.
StepOrder == <<"uploadLogo", "analyzeLogo", "generateTheme", "createRepo", "deployPreview">>

StepsOf(states) == [s \in StepIds |-> states[CHOOSE i \in 1..5 : StepOrder[i] = s]]

Row(status, progress, currentStep, states) ==
    [status |-> status, progress |-> progress, currentStep |-> currentStep,
     steps |-> StepsOf(states)]

\* The table of section 4.1 of the design document.
TableRow(event) ==
    IF event = "started" THEN
        Row("starting", 10, "uploadLogo",
            <<"in-progress", "pending", "pending", "pending", "pending">>)
    ELSE IF event = "logo_processed" THEN
        Row("in-progress", 25, "analyzeLogo",
            <<"completed", "in-progress", "pending", "pending", "pending">>)
    ELSE IF event = "logo_skipped" THEN
        Row("in-progress", 25, "generateTheme",
            <<"completed", "completed", "in-progress", "pending", "pending">>)
    ELSE IF event = "content_generated" THEN
        Row("in-progress", 60, "createRepo",
            <<"completed", "completed", "completed", "in-progress", "pending">>)
    ELSE IF event = "completed" THEN
        Row("completed", 100, "deployPreview",
            <<"completed", "completed", "completed", "completed", "completed">>)
    ELSE IF event = "failed" THEN
        Row("error", 0, "error",
            <<"pending", "pending", "pending", "pending", "pending">>)
    ELSE
        Row("in-progress", 50, "generateTheme",
            <<"pending", "pending", "in-progress", "pending", "pending">>)

\* C1: mapGitHubStatus is total: each of the six event names yields its row of
\* the table of section 4.1, and every other input (another string, or no
\* string at all) yields the default row.
C1_MapperIsTheTable ==
    (fnIn.fn = "mapGitHubStatus" /\ fnOut.done) => fnOut.value = TableRow(fnIn.arg)

C1_Witness ==
    /\ fnIn.fn = "mapGitHubStatus"
    /\ fnIn.arg = "test"
    /\ fnOut.done
    /\ fnOut.value.progress = 50
    /\ fnOut.value.steps["generateTheme"] = "in-progress"

\* C8: calculateTimeRemaining is 0 at progress 100 and 300 at progress 0, is
\* the integer nearest to (100 - progress) / 100 * 300 from 0 to 100, is never
\* negative, never grows as progress grows, and is 0 above 100.
C8_TimeRemaining ==
    (fnIn.fn = "calculateTimeRemaining" /\ fnOut.done) =>
        LET p == fnIn.arg
            v == fnOut.value
        IN  /\ p = 100 => v = 0
            /\ p = 0 => v = 300
            /\ (0 <= p /\ p <= 100) =>
                  /\ 100 * v - 50 <= (100 - p) * 300
                  /\ (100 - p) * 300 < 100 * v + 50
            /\ v >= 0
            /\ p > 100 => v = 0
            /\ \A q \in ProgressInputs : q >= p => calculateTimeRemaining(q) <= v

C8_Witness ==
    /\ fnIn.fn = "calculateTimeRemaining"
    /\ fnIn.arg = 25
    /\ fnOut.done
    /\ fnOut.value = 225

\* ------------------------------------------------------ webhook and query
\* `record` is the complete record of update `u`: every field but updatedAt
\* has the value the update gives it.
IsRecordOf(record, u) ==
    /\ record.clientId = u.client_name
    /\ record.status = TableRow(u.status).status
    /\ record.progress = TableRow(u.status).progress
    /\ record.currentStep = TableRow(u.status).currentStep
    /\ record.steps = TableRow(u.status).steps
    /\ record.message = u.message
    /\ record.previewUrl = u.preview_url
    /\ record.repositoryUrl = u.pr_url
    /\ record.error = u.error
    /\ record.estimatedTimeRemaining = 3 * (100 - TableRow(u.status).progress)

\* The last response answers a status query that named a clientId.
QueryAnswered == last.op = "GET" /\ Truthy(last.clientId)

\* C2: a status query for a clientId whose last acknowledged webhook carried
\* event e returns 200 and a record whose status, progress, currentStep and
\* steps are mapGitHubStatus(e).
C2_QueryMatchesMapper ==
    (QueryAnswered /\ last.clientId \in DOMAIN acked) =>
        LET mapped == mapGitHubStatus(acked[last.clientId].update.status) IN
        /\ last.code = 200
        /\ last.body.status = mapped.status
        /\ last.body.progress = mapped.progress
        /\ last.body.currentStep = mapped.currentStep
        /\ last.body.steps = mapped.steps

C2_Witness ==
    /\ QueryAnswered
    /\ last.clientId = "acme-1"
    /\ "acme-1" \in DOMAIN acked
    /\ acked["acme-1"].update.status = "completed"
    /\ last.body.progress = 100

\* C3: after acknowledged webhooks for a clientId, the stored record and the
\* record a status query returns take every field from the last acknowledged
\* update alone, also when that update lowers the progress.
C3_FullOverwrite ==
    /\ \A c \in DOMAIN acked :
          c \in DOMAIN statusStore /\ IsRecordOf(statusStore[c], acked[c].update)
    /\ (QueryAnswered /\ last.clientId \in DOMAIN acked) =>
          /\ last.code = 200
          /\ IsRecordOf(last.body, acked[last.clientId].update)

C3_Witness ==
    /\ QueryAnswered
    /\ last.clientId = "acme-1"
    /\ "acme-1" \in DOMAIN acked
    /\ acked["acme-1"].regressed
    /\ acked["acme-1"].update.status = "started"
    /\ last.body.progress = 10
    /\ last.body.previewUrl = Undefined
    /\ last.body.repositoryUrl = Undefined

\* C6: the record of every acknowledged update is stored under client_name and
\* carries clientId = client_name, message, previewUrl = preview_url,
\* repositoryUrl = pr_url and error of that update; a query after a
\* 'completed' update returns progress 100 with that update's preview_url.
C6_PassThrough ==
    /\ DOMAIN acked = DOMAIN statusStore
    /\ \A c \in DOMAIN acked :
          LET u == acked[c].update
              r == statusStore[c]
          IN  /\ u.client_name = c
              /\ r.clientId = c
              /\ r.message = u.message
              /\ r.previewUrl = u.preview_url
              /\ r.repositoryUrl = u.pr_url
              /\ r.error = u.error
    /\ (QueryAnswered /\ last.clientId \in DOMAIN acked
          /\ acked[last.clientId].update.status = "completed") =>
          /\ last.body.progress = 100
          /\ last.body.previewUrl = acked[last.clientId].update.preview_url

C6_Witness ==
    /\ QueryAnswered
    /\ last.clientId = "acme-1"
    /\ "acme-1" \in DOMAIN acked
    /\ last.body.progress = 100
    /\ last.body.previewUrl = "https://x.test"
    /\ last.body.repositoryUrl = "https://pr.test/1"

\* The request a step of the webhook handler finishes.
Processed == inflight \ inflight'

\* The signature header is present and is not the keyed hash of the body.
SignatureIncorrect(req) ==
    /\ Truthy(req.header)
    /\ req.header # "sha256=" \o HmacSha256Hex(webhookSecret, req.body.text)

\* C4: with a secret configured, a request with an incorrect signature is
\* answered 401 and leaves the store as it was; with no secret configured,
\* every request passes verification, whatever its signature.
C4_WrongSignatureIs401 ==
    [][\A req \in Processed :
          /\ (Truthy(webhookSecret) /\ SignatureIncorrect(req)) =>
                (last'.code = 401 /\ statusStore' = statusStore)
          /\ ~Truthy(webhookSecret) =>
                (last'.code # 401 /\ (req.body.json = "object" => last'.code = 200))
      ]_vars

\* The default record of a clientId, read at `time`.
DefaultRecord(clientId, time) ==
    [clientId |-> clientId, status |-> "starting", progress |-> 0,
     currentStep |-> "uploadLogo", message |-> "Initializing website generation...",
     previewUrl |-> Undefined, repositoryUrl |-> Undefined, error |-> Undefined,
     steps |-> StepsOf(<<"pending", "pending", "pending", "pending", "pending">>),
     estimatedTimeRemaining |-> 300, updatedAt |-> time]

\* C5: a status query for a clientId with no stored record is answered 200 with
\* status starting, progress 0 and the five steps pending, the same record at
\* every such query but for updatedAt, and the store stays as it was.
C5_DefaultNotStored ==
    [][(last'.op = "GET" /\ Truthy(last'.clientId)
          /\ last'.clientId \notin DOMAIN statusStore) =>
          /\ statusStore' = statusStore
          /\ last'.code = 200
          /\ last'.body = DefaultRecord(last'.clientId, last'.body.updatedAt)
      ]_vars

C5_Witness ==
    /\ QueryAnswered
    /\ last.clientId = "beta-2"
    /\ DOMAIN statusStore = {"acme-1"}
    /\ last.body.status = "starting"
    /\ last.body.updatedAt = 1

\* C9: whatever webhook requests are in progress together, every stored record
\* is the complete record of one update, the one whose write came last, and a
\* status query never returns a record that mixes two updates.
C9_NoMixedRecord ==
    /\ \A c \in DOMAIN statusStore :
          \E u \in StatusUpdates :
             /\ c \in DOMAIN acked
             /\ u = acked[c].update
             /\ IsRecordOf(statusStore[c], u)
    /\ (QueryAnswered /\ last.clientId \in DOMAIN statusStore) =>
          \E u \in StatusUpdates : IsRecordOf(last.body, u)

\* One of two requests for a client, in progress together, has written; the
\* other is still suspended.
C9_Witness ==
    /\ last.op = "POST"
    /\ last.code = 200
    /\ last.pending >= 1
    /\ \E r \in inflight :
          /\ r.body.json = "object"
          /\ r.body.value.client_name = last.clientId
          /\ r.body.value # acked[last.clientId].update
    /\ IsRecordOf(statusStore[last.clientId], acked[last.clientId].update)

\* The entry of clientId b differs between the two states of a step.
EntryChanged(b) ==
    \/ (b \in DOMAIN statusStore) # (b \in DOMAIN statusStore')
    \/ /\ b \in DOMAIN statusStore
       /\ b \in DOMAIN statusStore'
       /\ statusStore'[b] # statusStore[b]

\* C10: a step changes the stored entry of a clientId only by finishing a
\* webhook request for that very clientId; the entries of all other clients
\* stay as they were, whatever requests are in progress.
C10_OtherClientsUntouched ==
    [][/\ DOMAIN statusStore' \subseteq ClientIds
       /\ \A b \in ClientIds :
             EntryChanged(b) =>
                \E req \in Processed :
                   req.body.json = "object" /\ req.body.value.client_name = b
      ]_vars

C10_Witness ==
    /\ last.op = "POST"
    /\ last.code = 200
    /\ last.clientId = "acme-1"
    /\ DOMAIN statusStore = {"acme-1", "beta-2"}
    /\ \E r \in inflight : r.body.json = "object" /\ r.body.value.client_name = "beta-2"

\* --------------------------------------------------------- POST /generate
\* The last position of character ch in s, 0 when it has none.
LastIndexOf(s, ch) ==
    IF \E i \in 1..Len(s) : Char(s, i) = ch
    THEN CHOOSE i \in 1..Len(s) :
            Char(s, i) = ch /\ \A k \in (i + 1)..Len(s) : Char(s, k) # ch
    ELSE 0

AllIn(s, chars) == \A i \in 1..Len(s) : Char(s, i) \in chars

\* id reads <slug>-<digits>-<alnum>: a slug of 1 to 10 lower-case letters,
\* digits and hyphens, a decimal number, and a lower-case alphanumeric suffix.
MatchesClientIdPattern(id) ==
    LET j == LastIndexOf(id, "-")
        head == SubSeq(id, 1, j - 1)
        i == LastIndexOf(head, "-")
        slug == SubSeq(id, 1, i - 1)
        digits == SubSeq(id, i + 1, j - 1)
        suffix == SubSeq(id, j + 1, Len(id))
    IN  /\ j > 0
        /\ i > 0
        /\ Len(slug) >= 1 /\ Len(slug) <= 10 /\ AllIn(slug, LowerAlnum \cup {"-"})
        /\ Len(digits) >= 1 /\ AllIn(digits, DigitChars)
        /\ Len(suffix) >= 1 /\ AllIn(suffix, LowerAlnum)

NameOfOneChar(f) == Truthy(f.businessName) /\ Len(f.businessName) = 1

EmailMalformed(f) == f.email \in {"a@b", "ab.com", "a b@c.de", "@b.com"}

ServicesEmpty(f) == f.services.kind = "array" /\ Len(f.services.items) = 0

\* The required fields are all well-formed.
MinimalValid(f) ==
    /\ f.businessName \in {"Ab", "Acme Corp", "  Acme & Sons Bakery"}
    /\ f.email = "a@b.com"
    /\ f.industry = "Tech"
    /\ f.services.kind = "array" /\ Len(f.services.items) >= 1

Rejected400(r) == r.code = 400 /\ Len(r.body.details) >= 1

\* C7 as stated: a business name of one character, a malformed email or an
\* empty services list is answered 400 with a non-empty details list; a minimal
\* valid payload is answered 200 with a clientId <slug>-<digits>-<alnum>.
C7_AsStated ==
    (gen.pc = "done" /\ gen.body.json = "object") =>
        LET f == gen.body.value
            r == gen.response
        IN  /\ (NameOfOneChar(f) \/ EmailMalformed(f) \/ ServicesEmpty(f)) => Rejected400(r)
            /\ MinimalValid(f) => (r.code = 200 /\ MatchesClientIdPattern(r.body.clientId))

\* C7, amended: with a bearer token configured, such a payload is answered 400
\* with a non-empty details list; a minimal valid payload gets a clientId
\* <slug>-<digits>-<alnum>, and is answered 200 with that clientId when the
\* dispatch API answers 2xx.
C7_WithTokenAndUpstream ==
    (gen.pc = "done" /\ gen.body.json = "object" /\ Truthy(githubToken)) =>
        LET f == gen.body.value
            r == gen.response
        IN  /\ (NameOfOneChar(f) \/ EmailMalformed(f) \/ ServicesEmpty(f)) => Rejected400(r)
            /\ MinimalValid(f) =>
                  /\ MatchesClientIdPattern(gen.clientId)
                  /\ (gen.githubResponse.kind = "response"
                        /\ gen.githubResponse.status \in 200..299) =>
                        (r.code = 200 /\ r.body.clientId = gen.clientId)

C7_Witness ==
    /\ gen.pc = "done"
    /\ gen.body.json = "object"
    /\ gen.body.value.businessName = "  Acme & Sons Bakery"
    /\ gen.body.value.services.items = <<"x">>
    /\ gen.response.code = 200
    /\ gen.response.body.clientId = "--acme---s-1700000001-ab12cd"

\* ----------------------------------------------- webhook POST, error paths
\* The request passes the signature check (or the check is skipped).
VerificationPasses(req) ==
    verifyGitHubSignature(req.body.text,
                          IF req.header = Undefined THEN "" ELSE req.header,
                          webhookSecret) = "true"

\* C11: every processed webhook request is answered (200, 401 or 500); one
\* whose body is not JSON, once past the signature check, is answered 500 with
\* the store unchanged; and one whose signature does not match the configured
\* secret is answered 401.
C11_ErrorsAre500MismatchIs401 ==
    [][\A req \in Processed :
          /\ last'.op = "POST" /\ last'.code \in {200, 401, 500}
          /\ (req.body.json = "invalid" /\ VerificationPasses(req)) =>
                (last'.code = 500 /\ statusStore' = statusStore)
          /\ (Truthy(webhookSecret) /\ SignatureIncorrect(req)) => last'.code = 401
      ]_vars

\* C11, the part the handler keeps: a body that is not JSON is answered 500
\* and changes nothing, and no request is left without a response.
C11_ParseFailureIs500 ==
    [][\A req \in Processed :
          /\ last'.op = "POST" /\ last'.code \in {200, 401, 500}
          /\ (req.body.json = "invalid" /\ VerificationPasses(req)) =>
                (last'.code = 500 /\ statusStore' = statusStore)
      ]_vars

\* ------------------------------------------------------- error responses
\* C12: a 500 response of POST /generate carries a fixed message, never the
\* message text of the exception the handler caught.
C12_No500CarriesExceptionText ==
    (gen.pc = "done" /\ gen.response.code = 500) =>
        gen.response.body.details \notin {SyntaxErrorMessage, FetchErrorMessage}

\* ------------------------------------------------------- the status alias
\* The alias request finishes in this step.
AliasAnswers == alias' # alias /\ alias'.pc = "done"

\* What the direct query GET /api/webhooks/github-status?clientId=X answers in
\* the state the alias answers in.
DirectAnswer(clientId) == GetResponse(statusStore, clientId, now)

\* C13: whenever the alias answers, it answers what the direct query answers in
\* that state for the same clientId: the same code and the same record body
\* for a non-empty clientId, and 400 from both when the clientId is missing.
C13_AliasEqualsDirectQuery ==
    [][AliasAnswers =>
          IF Truthy(alias'.clientId)
          THEN /\ alias'.response.code = DirectAnswer(alias'.clientId).code
               /\ alias'.response.body = DirectAnswer(alias'.clientId).body
               /\ alias'.response.code = 200
          ELSE /\ alias'.response.code = 400
               /\ DirectAnswer(alias'.clientId).code = 400
      ]_vars

\* C13, the part the alias keeps: when the forwarded request is served, the
\* alias relays the direct query's code and body.
C13_AliasEqualsDirectQueryWhenForwarded ==
    [][(AliasAnswers /\ alias'.response.code # 500) =>
          IF Truthy(alias'.clientId)
          THEN /\ alias'.response.code = DirectAnswer(alias'.clientId).code
               /\ alias'.response.body = DirectAnswer(alias'.clientId).body
               /\ alias'.response.code = 200
          ELSE /\ alias'.response.code = 400
               /\ DirectAnswer(alias'.clientId).code = 400
      ]_vars

\* ------------------------------------------------------------ steps shape
StepStates == {"pending", "in-progress", "completed", "failed"}

\* The steps mapping has exactly the five step keys, each with a step state.
WellFormedSteps(steps) ==
    /\ DOMAIN steps = StepIds
    /\ \A s \in StepIds : steps[s] \in StepStates

\* The last response is a status query's record.
QueryReturnedRecord == last.op = "GET" /\ last.code = 200

\* C14: every record in the store, and every record a status query returned
\* (stored or the synthesized default), has a steps mapping with exactly the
\* five step keys, each pending, in-progress, completed or failed.
C14_FiveStepKeys ==
    /\ \A id \in DOMAIN statusStore : WellFormedSteps(statusStore[id].steps)
    /\ QueryReturnedRecord => WellFormedSteps(last.body.steps)

\* A stored record with a step in progress, and a query that returned the
\* default for a client without a record.
C14_Witness ==
    /\ "acme-1" \in DOMAIN statusStore
    /\ statusStore["acme-1"].steps["uploadLogo"] = "in-progress"
    /\ QueryReturnedRecord
    /\ last.clientId = "beta-2"
    /\ "beta-2" \notin DOMAIN statusStore
    /\ last.body.steps["deployPreview"] = "pending"

\* --------------------------------------------------------- record lifecycle
\* C15: no step removes an entry of the store, and a step creates or changes
\* the entry of a clientId only by finishing, with 200, a webhook request for
\* that clientId; queries, OPTIONS and rejected requests leave every entry.
C15_EntriesPersist ==
    [][/\ DOMAIN statusStore \subseteq DOMAIN statusStore'
       /\ \A id \in ClientIds :
             EntryChanged(id) =>
                /\ last'.op = "POST" /\ last'.code = 200 /\ last'.clientId = id
                /\ statusStore'[id] = GenerationStatusOf(acked'[id].update, now)
      ]_vars

\* Both clients have a record, and a query, after them, returned one of them.
C15_Witness ==
    /\ DOMAIN statusStore = {"acme-1", "beta-2"}
    /\ last.op = "GET"
    /\ last.code = 200
    /\ last.clientId = "beta-2"
    /\ last.body = statusStore["beta-2"]
    /\ inflight = {}

\* -------------------------------------------------------- polling discipline
\* A status query is sent in this step.
QueryIssued == poller'.inFlight > poller.inFlight

PollSettled == poller.pc = "inflight" /\ poller'.pc # "inflight"

\* min(1000 * 2^attempt, 30000)
BackoffMs(attempt) == IF 1000 * 2^attempt < 30000 THEN 1000 * 2^attempt ELSE 30000

Contains(s, sub) ==
    \E i \in 1..(Len(s) - Len(sub) + 1) : SubSeq(s, i, i + Len(sub) - 1) = sub

\* The dispatch API answered the finished request with a status outside 2xx.
UpstreamRefused ==
    /\ gen.pc = "done"
    /\ gen.githubResponse.kind = "response"
    /\ ~(gen.githubResponse.status \in 200..299)

MissingData(u) == u.status = Undefined \/ u.client_name = Undefined

\* C20: a webhook POST whose body lacks data is answered 400; a complete one
\* is answered 200 and its record is stored; a body that cannot be processed
\* is answered 500.
C20_MissingDataIs400 ==
    [][\A req \in Processed :
          IF req.body.json # "object" THEN last'.code = 500
          ELSE IF MissingData(req.body.value) THEN
               last'.code = 400 /\ statusStore' = statusStore
          ELSE /\ last'.code = 200
               /\ statusStore'[req.body.value.client_name] =
                     GenerationStatusOf(req.body.value, now)
      ]_vars

\* C20, the part the handler keeps: a complete body is answered 200 and
\* stored, an unparsable one 500.
C20_SuccessIs200ErrorIs500 ==
    [][\A req \in Processed :
          IF req.body.json # "object" THEN last'.code = 500
          ELSE MissingData(req.body.value) \/
               (/\ last'.code = 200
                /\ statusStore'[req.body.value.client_name] =
                      GenerationStatusOf(req.body.value, now))
      ]_vars

\* ------------------------------------------- a tracking session, end to end
\* The clientId the tracking session was started for.
SessionClientId == "acme-1"

\* The outcome of a status query that reaches the endpoint: the record (or the
\* default) the GET handler answers for the session's client.
ServedOutcome ==
    LET r == GetResponse(statusStore, SessionClientId, now) IN
    [kind |-> "response", httpStatus |-> r.code, status |-> r.body.status]

\* The poll in flight is answered by the endpoint.
PollServed == PollSettle(ServedOutcome)

\* The webhook receiver, unsigned, and one tracking session whose polls are
\* all answered.
InitTrack ==
    /\ ServerInit
    /\ webhookSecret = Undefined
    /\ now = 0
    /\ GenInit
    /\ githubToken = "ghp_token"
    /\ FnInit
    /\ AliasInit
    /\ PollInit
    /\ UiInit

NextTrack ==
    \/ \E body \in Bodies : PostReceive(body, Undefined)
    \/ \E req \in inflight : PostProcess(req)
    \/ PollInterval
    \/ PollServed

\* Every received webhook request is handled, the timer fires and every poll
\* is answered.
SpecTrackFair ==
    /\ InitTrack /\ [][NextTrack]_vars
    /\ WF_vars(\E req \in inflight : PostProcess(req))
    /\ WF_vars(PollInterval)
    /\ WF_vars(PollServed)

\* ----------------------------------------------------- session termination
TerminalEvents == {"completed", "failed"}

\* The receiver acknowledged a completed or failed event for the session's
\* client as the last event for it.
TerminalEventPosted ==
    /\ SessionClientId \in DOMAIN acked
    /\ acked[SessionClientId].update.status \in TerminalEvents

\* The record stored for the session's client is completed or error.
TerminalStored ==
    /\ SessionClientId \in DOMAIN statusStore
    /\ statusStore[SessionClientId].status \in {"completed", "error"}

\* The poller observed a terminal status and is at rest with polling off.
PollerStopped ==
    /\ poller.status \in {"completed", "error"}
    /\ poller.pc = "idle"
    /\ poller.inFlight = 0
    /\ refetchInterval(poller.status) = 0

ExpectedSignature(req) == "sha256=" \o HmacSha256Hex(webhookSecret, req.body.text)

\* C22: with a secret configured, a processed webhook request changes the
\* store only if its signature header equals 'sha256=' + HMAC-SHA256(secret,
\* raw body); a request whose header is missing, empty or different leaves the
\* store as it was.
C22_OnlySignedRequestsChangeStore ==
    [][Truthy(webhookSecret) =>
          \A req \in Processed :
              /\ statusStore' # statusStore => req.header = ExpectedSignature(req)
              /\ req.header # ExpectedSignature(req) => statusStore' = statusStore
      ]_vars

\* C22, the part the handler keeps: with a secret configured, a request whose
\* header is present and differs from the expected signature leaves the store
\* as it was.
C22_WrongSignatureLeavesStore ==
    [][Truthy(webhookSecret) =>
          \A req \in Processed :
              (req.header # Undefined /\ req.header # ExpectedSignature(req))
                  => statusStore' = statusStore
      ]_vars

\* ------------------------------------------------------ records of the store
\* One update per value of the status field, all for the same client.
RowUpdates ==
    { [text |-> "r-" \o g, status |-> g, client_name |-> "acme-1",
       message |-> "update", pr_url |-> Undefined, preview_url |-> Undefined,
       error |-> Undefined] : g \in GithubStatusInputs }

RowBodies == { [json |-> "object", text |-> u.text, value |-> u] : u \in RowUpdates }

\* The webhook receiver, unsigned, fed every kind of status, and the query.
InitRows ==
    /\ ServerInit
    /\ webhookSecret = Undefined
    /\ now = 0
    /\ GenInit
    /\ githubToken = "ghp_token"
    /\ FnInit
    /\ AliasInit
    /\ PollInit
    /\ UiInit

NextRows ==
    \/ \E body \in RowBodies : PostReceive(body, Undefined)
    \/ \E req \in inflight : PostProcess(req)
    \/ \E clientId \in QueryClientIds : GetStatus(clientId)

SpecRows == InitRows /\ [][NextRows]_vars

\* The seven rows of the table: one per event name, and the default row.
SevenRows == { TableRow(e) : e \in RecognizedStatuses \cup {"<any other>"} }

RowOf(record) ==
    [status |-> record.status, progress |-> record.progress,
     currentStep |-> record.currentStep, steps |-> record.steps]

AllStepsCompleted(record) == \A s \in StepIds : record.steps[s] = "completed"

\* C23: every stored record carries one of the seven rows and the estimate
\* round((100 - progress) * 3); so it is completed exactly when its progress
\* is 100, exactly when all five steps are completed, and it is an error
\* exactly when its current step is error.
C23_StoredRecordsAreRows ==
    \A c \in DOMAIN statusStore :
        LET record == statusStore[c] IN
        /\ Cardinality(SevenRows) = 7
        /\ RowOf(record) \in SevenRows
        /\ record.estimatedTimeRemaining = MathRound((100 - record.progress) * 3, 1)
        /\ (record.status = "completed") <=> (record.progress = 100)
        /\ (record.progress = 100) <=> AllStepsCompleted(record)
        /\ (record.status = "error") <=> (record.currentStep = "error")

\* The store holds the row of an event outside the six names, with its
\* estimate, in place of a record of higher progress.
C23_Witness ==
    /\ "acme-1" \in DOMAIN statusStore
    /\ statusStore["acme-1"].progress = 50
    /\ statusStore["acme-1"].estimatedTimeRemaining = 150
    /\ acked["acme-1"].regressed

\* ------------------------------------------------------- dispatch calls
\* C24: a request makes at most one dispatch call, and none when no token is
\* configured, when the body is not a JSON object or when validation reports
\* an error; a 200 response names the client id that the one call carried as
\* client_name, and the status URL of that id.
C24_OneDispatchPerValidRequest ==
    /\ Len(dispatched) <= 1
    /\ ~Truthy(githubToken) => dispatched = <<>>
    /\ (gen.pc # "idle" /\ gen.body.json # "object") => dispatched = <<>>
    /\ (gen.pc # "idle" /\ gen.body.json = "object"
          /\ Len(validateFormData(gen.body.value)) > 0) => dispatched = <<>>
    /\ gen.response.code = 200 =>
          /\ Len(dispatched) = 1
          /\ gen.response.body.clientId = dispatched[1].client_payload.client_name
          /\ gen.response.body.statusUrl
                = "/api/status/" \o dispatched[1].client_payload.client_name

\* A valid request was dispatched once and answered 200.
C24_Witness ==
    /\ gen.pc = "done"
    /\ gen.response.code = 200
    /\ Len(dispatched) = 1
    /\ dispatched[1].client_payload.client_name = gen.clientId

\* ------------------------------------------------- reconnection attempts
MaxAttemptsError == "Maximum reconnection attempts exceeded"

\* handleReconnection ran in this step (it alone raises the counter).
ReconnectionHandled == ws'.reconnectAttempt > ws.reconnectAttempt

\* C25 as stated: between two successful connects at most
\* reconnectionAttempts reconnection timers are scheduled.
C25_TimersBetweenConnects ==
    ws.sinceConnect <= reconnectionAttempts

\* C25: between two resets of the attempt counter (a successful connect, a
\* disconnect() or a reconnect()) at most reconnectionAttempts timers are
\* scheduled; a run of handleReconnection that takes the counter over the
\* limit schedules no timer and sets the error; and a successful connect, a
\* disconnect() and a reconnect() leave the counter at 0.
C25_TimersBetweenResets ==
    /\ [](ws.sinceReset <= reconnectionAttempts)
    /\ [][(ReconnectionHandled /\ ws'.reconnectAttempt > reconnectionAttempts) =>
             /\ ~ws'.scheduled
             /\ ws'.pending <= ws.pending
             /\ ws'.connectionState.error = MaxAttemptsError]_vars
    /\ [][(ReconnectionHandled /\ ws'.reconnectAttempt <= reconnectionAttempts) =>
             /\ ws'.scheduled
             /\ ws'.pending = ws.pending + 1]_vars
    /\ [](ws.lastOp \in {"disconnect()", "reconnect()"} => ws.reconnectAttempt = 0)
    /\ []((ws.lastOp = "connect" /\ ws.phase = "mounted") => ws.reconnectAttempt = 0)

\* The counter went over the limit after reconnectionAttempts timers, and the
\* error is set.
C25_Witness ==
    /\ ws.reconnectAttempt = reconnectionAttempts + 1
    /\ ws.sinceReset = reconnectionAttempts
    /\ ~ws.scheduled
    /\ ws.connectionState.error = MaxAttemptsError

\* ------------------------------------------------- reconnection timers
\* C26: a reconnection timer that fires while the component is mounted calls
\* connect() on the socket the hook created.
C26_TimerCallsConnect ==
    (ws.lastOp = "timer" /\ ws.mountedRef) => ws.connectCalled

\* C26, what the handlers hold instead: the handleReconnection that the
\* socket's listeners call closed over the `socket` state of the render that
\* created the socket, which is null; no reconnection timer ever calls
\* connect().
C26_TimerClosesOverNull ==
    /\ ws.closureSocket = "null"
    /\ ws.lastOp = "timer" => ~ws.connectCalled

\* ------------------------------------------------------------------ unmount
\* C27: once the component is unmounted, the socket the hook created is
\* closed with its listeners removed, no reconnection timer is pending, and no
\* step updates the connection state, sets a timer or calls connect().
C27_UnmountReleasesSocket ==
    ws.phase = "unmounted" =>
        /\ ws.socket = "set" => (ws.conn = "disconnected" /\ ~ws.listeners)
        /\ ws.pending = 0
        /\ ~ws.stateUpdated
        /\ ~ws.scheduled
        /\ ~ws.connectCalled

\* C27, the part the cleanup keeps: once the component is unmounted the timer
\* held by the ref is cleared, and no step of the hook updates the connection
\* state, sets a timer or calls connect().
C27_UnmountSilencesHook ==
    ws.phase = "unmounted" =>
        /\ ~ws.mountedRef
        /\ ws.refTimer = "null"
        /\ ~ws.stateUpdated
        /\ ~ws.scheduled
        /\ ~ws.connectCalled

\* ---------------------------------------------------- one timer at a time
\* The reconnection timers pending that reconnectTimeoutRef no longer holds.
LostTimers == ws.pending - (IF ws.refTimer = "pending" THEN 1 ELSE 0)

\* C28: at most one reconnection timer is pending; when handleReconnection
\* sets a timer, no earlier one is still pending.
C28_OneTimerPending ==
    /\ ws.pending <= 1
    /\ ws.scheduled => ws.pending = 1

\* C28, what holds instead: the ref holds at most one pending timer, every
\* other pending timer is out of reach of clearReconnectTimeout, and a timer
\* set while another is pending leaves both pending.
C28_RefHoldsLastTimerOnly ==
    [][/\ LostTimers >= 0
       /\ (ws'.scheduled /\ ws.refTimer = "pending") =>
             (ws'.pending = ws.pending + 1 /\ LostTimers' = LostTimers + 1)]_vars

\* ------------------------------------------------ GeneratorForm, the steps
Letters == {Char(LowerCase, i) : i \in 1..26} \cup {Char(UpperCase, i) : i \in 1..26}

\* String.prototype.replace(/[\s\-\(\)]/g, '')
RECURSIVE StripPhonePunctuation(_)
StripPhonePunctuation(s) ==
    IF Len(s) = 0 THEN ""
    ELSE (IF Char(s, 1) \in Whitespace \cup {"-", "(", ")"} THEN "" ELSE Char(s, 1))
         \o StripPhonePunctuation(SubSeq(s, 2, Len(s)))

NoValidationError == "null"

validateEmail(email) ==
    IF ~EmailMatches(email) THEN "Please enter a valid email address"
    ELSE NoValidationError

\* /^[\+]?[1-9][\d]{0,15}$/ on the number without its punctuation
validatePhone(phone) ==
    IF phone = "" THEN NoValidationError
    ELSE LET p == StripPhonePunctuation(phone)
             d == IF Len(p) > 0 /\ Char(p, 1) = "+" THEN SubSeq(p, 2, Len(p)) ELSE p
         IN  IF /\ Len(d) >= 1 /\ Len(d) <= 16
                /\ Char(d, 1) \in DigitChars \ {"0"}
                /\ AllIn(d, DigitChars)
             THEN NoValidationError
             ELSE "Please enter a valid phone number"

\* /^[a-zA-Z0-9][a-zA-Z0-9-]{1,61}[a-zA-Z0-9]\.[a-zA-Z]{2,}$/
validateDomain(domain) ==
    IF domain = "" THEN NoValidationError
    ELSE LET d == LastIndexOf(domain, ".")
             head == SubSeq(domain, 1, d - 1)
             tld == SubSeq(domain, d + 1, Len(domain))
             alnum == Letters \cup DigitChars
         IN  IF /\ d > 0
                /\ Len(head) >= 3 /\ Len(head) <= 63
                /\ Char(head, 1) \in alnum
                /\ Char(head, Len(head)) \in alnum
                /\ AllIn(head, alnum \cup {"-"})
                /\ Len(tld) >= 2
                /\ AllIn(tld, Letters)
             THEN NoValidationError
             ELSE "Please enter a valid domain (e.g., yourdomain.com)"

MaxFileSize == 5 * 1024 * 1024

validateFile(file) ==
    IF file.kind = "null" THEN NoValidationError
    ELSE IF file.type \notin {"image/png", "image/jpeg", "image/jpg", "image/svg+xml"}
    THEN "Please upload a PNG, JPG, or SVG file"
    ELSE IF file.size > MaxFileSize THEN "File size must be less than 5MB"
    ELSE NoValidationError

validateService(value) ==
    IF Len(value) < 10 THEN "Please provide at least 10 characters"
    ELSE IF Len(value) > 200 THEN "Please keep it under 200 characters"
    ELSE NoValidationError

validateCoreServices(value) ==
    IF Len(value) < 20 THEN "Please provide at least 20 characters"
    ELSE IF Len(value) > 500 THEN "Please keep it under 500 characters"
    ELSE NoValidationError

\* The questions in their order: id, required, and the name of the custom
\* validation ("none" where the question has none).
questions ==
    << [id |-> "service", required |-> TRUE, validation |-> "service"],
       [id |-> "targetAudience", required |-> TRUE, validation |-> "none"],
       [id |-> "industry", required |-> TRUE, validation |-> "none"],
       [id |-> "coreServices", required |-> TRUE, validation |-> "coreServices"],
       [id |-> "logo", required |-> FALSE, validation |-> "validateFile"],
       [id |-> "email", required |-> TRUE, validation |-> "validateEmail"],
       [id |-> "phone", required |-> FALSE, validation |-> "validatePhone"],
       [id |-> "domain", required |-> FALSE, validation |-> "validateDomain"] >>

\* question.validation(value)
RunValidation(question, value) ==
    CASE question.validation = "service" -> validateService(value)
      [] question.validation = "coreServices" -> validateCoreServices(value)
      [] question.validation = "validateFile" -> validateFile(value)
      [] question.validation = "validateEmail" -> validateEmail(value)
      [] question.validation = "validatePhone" -> validatePhone(value)
      [] question.validation = "validateDomain" -> validateDomain(value)
      [] OTHER -> NoValidationError

\* !value, for a field's value (a string, or the logo's File | null)
Falsy(question, value) ==
    IF question.id = "logo" THEN value.kind = "null" ELSE value = ""

\* !value || (typeof value === 'string' && !value.trim())
Blank(question, value) ==
    \/ Falsy(question, value)
    \/ (question.id # "logo" /\ Trim(value) = "")

\* The check that lets blank required fields through.
StepError_NoRequiredCheck(question, value) ==
    IF question.validation # "none" /\ ~Falsy(question, value)
          /\ RunValidation(question, value) # NoValidationError
    THEN RunValidation(question, value)
    ELSE NoValidationError

\* validateCurrentStep: the error it sets, or none when it returns true.
StepError(question, value) ==
    IF question.required /\ Blank(question, value)
    THEN "This field is required"
    ELSE IF question.validation # "none" /\ ~Falsy(question, value)
            /\ RunValidation(question, value) # NoValidationError
    THEN RunValidation(question, value)
    ELSE NoValidationError

\* What the user can enter into each field.
FieldInputs(id) ==
    CASE id = "service" -> {"CFO", "Fractional CFO"}
      [] id = "targetAudience" -> {" ", "law firms"}
      [] id = "industry" -> {"", "Legal"}
      [] id = "coreServices" -> {"reporting", "cash flow planning, reporting"}
      [] id = "logo" -> {NoFile, [kind |-> "file", type |-> "image/png", size |-> 1024],
                         [kind |-> "file", type |-> "image/gif", size |-> 1024]}
      [] id = "email" -> {"me@x", "me@x.io"}
      [] id = "phone" -> {"", "+1 (555) 123-4567", "call me"}
      [] id = "domain" -> {"", "acme.com", "ab.com"}

currentQuestion == questions[form.currentStep + 1]

isLastStep == form.currentStep = Len(questions) - 1

FormFrame == UNCHANGED <<serverVars, now, genVars, fnVars, restVars, ws, prog>>

\* handleInputChange(currentQuestion.id, value), from the input on screen
FormInput(value) ==
    /\ ~form.isGenerating
    /\ form' = [form EXCEPT !.formData[currentQuestion.id] = value,
                            !.errors[currentQuestion.id] = Undefined,
                            !.lastOp = "handleInputChange"]
    /\ FormFrame

\* handleNext, from the button (disabled while isSubmitting); on the last step
\* it starts handleSubmit.
FormNext ==
    LET error == StepError(currentQuestion, form.formData[currentQuestion.id]) IN
    /\ ~form.isGenerating
    /\ ~form.isSubmitting
    /\ form' = IF error # NoValidationError
               THEN [form EXCEPT !.errors[currentQuestion.id] = error,
                                 !.lastOp = "handleNext"]
               ELSE IF isLastStep
               THEN [form EXCEPT !.isSubmitting = TRUE, !.lastOp = "handleSubmit"]
               ELSE [form EXCEPT !.currentStep = @ + 1, !.lastOp = "handleNext"]
    /\ FormFrame

\* handleBack, from the button (disabled on the first step)
FormBack ==
    /\ ~form.isGenerating
    /\ form.currentStep > 0
    /\ form' = [form EXCEPT !.currentStep = @ - 1, !.lastOp = "handleBack"]
    /\ FormFrame

\* handleSubmit after its await: the tracker takes over the screen.
FormSubmitted(random) ==
    /\ form.isSubmitting
    /\ ~form.isGenerating
    /\ form' = [form EXCEPT !.clientId = "client-" \o ToString(DateNow(now))
                                          \o "-" \o random,
                            !.isGenerating = TRUE,
                            !.lastOp = "handleSubmit resumed"]
    /\ FormFrame

\* handleGenerationError / handleRetry: back to the form.
FormRetry ==
    /\ form.isGenerating
    /\ form' = [form EXCEPT !.isGenerating = FALSE, !.clientId = "null",
                            !.isSubmitting = FALSE, !.lastOp = "handleRetry"]
    /\ FormFrame

\* One GeneratorForm and its user.
InitForm ==
    /\ ServerInit
    /\ webhookSecret = Undefined
    /\ now = 0
    /\ GenInit
    /\ githubToken = "ghp_token"
    /\ FnInit
    /\ AliasInit
    /\ PollInit
    /\ UiInit

NextForm ==
    \/ \E value \in FieldInputs(currentQuestion.id) : FormInput(value)
    \/ FormNext
    \/ FormBack
    \/ \E random \in {"k3j9x0q2m"} : FormSubmitted(random)
    \/ FormRetry

SpecForm == InitForm /\ [][NextForm]_vars

\* ---------------------------------------------------- the form's step index
RequiredQuestionIds == {"service", "targetAudience", "industry", "coreServices", "email"}

\* A required field holds a non-empty value that passes its validation.
RequiredOk(id, value) ==
    /\ value # ""
    /\ Trim(value) # ""
    /\ id = "service" => (Len(value) >= 10 /\ Len(value) <= 200)
    /\ id = "coreServices" => (Len(value) >= 20 /\ Len(value) <= 500)
    /\ id = "email" => EmailMatches(value)

CurrentStepPasses ==
    StepError(currentQuestion, form.formData[currentQuestion.id]) = NoValidationError

\* C29: the step index stays within 0..(number of questions - 1); a step
\* changes the index by one at most, upwards only in handleNext with the
\* current question passing validateCurrentStep (and then by exactly one,
\* unless on the last step), downwards only in handleBack and never below 0;
\* handleSubmit starts only on the last step with its question validated, and
\* then every required question holds a non-empty value that passes its
\* validation.
C29_StepIndexAndSubmit ==
    /\ [](form.currentStep \in 0..(Len(questions) - 1))
    /\ [][/\ form'.currentStep \in {form.currentStep - 1, form.currentStep,
                                    form.currentStep + 1}
          /\ form'.currentStep = form.currentStep + 1 =>
                (form'.lastOp = "handleNext" /\ CurrentStepPasses)
          /\ (form'.lastOp = "handleNext" /\ CurrentStepPasses) =>
                form'.currentStep = form.currentStep + 1
          /\ form'.currentStep = form.currentStep - 1 =>
                (form'.lastOp = "handleBack" /\ form.currentStep > 0)
          /\ form'.lastOp = "handleSubmit" =>
                (isLastStep /\ CurrentStepPasses /\ form'.formData = form.formData)
         ]_vars
    /\ [](form.lastOp = "handleSubmit" =>
             /\ isLastStep
             /\ \A id \in RequiredQuestionIds : RequiredOk(id, form.formData[id]))

\* handleSubmit has started on the last step, with the optional fields
\* filled in.
C29_Witness ==
    /\ form.lastOp = "handleSubmit"
    /\ form.isSubmitting
    /\ isLastStep
    /\ form.formData.domain = "acme.com"
    /\ form.formData.phone = "+1 (555) 123-4567"
    /\ form.formData.logo.kind = "file"

\* ------------------------------------------- useGenerationProgress, events
Pct(n) == 2 * n

STEP_WEIGHTS ==
    [uploadLogo |-> 20, analyzeLogo |-> 20, generateTheme |-> 30,
     createRepo |-> 15, deployPreview |-> 15]

RECURSIVE SumOver(_, _)
SumOver(f, keys) ==
    IF keys = {} THEN 0
    ELSE LET k == CHOOSE x \in keys : TRUE IN f[k] + SumOver(f, keys \ {k})

\* calculateProgress, in halves of a percent: a completed step adds its
\* weight, a step in progress weight * 0.5.
calculateProgress(steps) ==
    Min(SumOver([step \in DOMAIN steps |->
                    IF steps[step] = "completed" THEN Pct(STEP_WEIGHTS[step])
                    ELSE IF steps[step] = "in-progress" THEN STEP_WEIGHTS[step]
                    ELSE 0],
                DOMAIN steps),
        Pct(100))

\* The helper that keeps the progress it is given.
updateProgressState_KeepsGivenProgress(prev, updates) ==
    Spread(prev, updates)

\* updateProgressState: the next state for the updates
updateProgressState(prev, updates) ==
    LET newState == Spread(prev, updates) IN
    IF "steps" \in DOMAIN updates
    THEN [newState EXCEPT !.progress = calculateProgress(newState.steps)]
    ELSE newState

\* The steps records that update events carry.
EventSteps ==
    { [uploadLogo |-> "pending", analyzeLogo |-> "pending", generateTheme |-> "pending",
       createRepo |-> "pending", deployPreview |-> "pending"],
      [uploadLogo |-> "in-progress", analyzeLogo |-> "pending", generateTheme |-> "pending",
       createRepo |-> "pending", deployPreview |-> "pending"],
      [uploadLogo |-> "completed", analyzeLogo |-> "in-progress", generateTheme |-> "pending",
       createRepo |-> "pending", deployPreview |-> "pending"],
      [uploadLogo |-> "completed", analyzeLogo |-> "completed", generateTheme |-> "completed",
       createRepo |-> "in-progress", deployPreview |-> "pending"],
      [uploadLogo |-> "completed", analyzeLogo |-> "failed", generateTheme |-> "pending",
       createRepo |-> "pending", deployPreview |-> "in-progress"],
      [uploadLogo |-> "completed", analyzeLogo |-> "completed", generateTheme |-> "completed",
       createRepo |-> "completed", deployPreview |-> "completed"] }

\* generation-update payloads, for the hook's client and for another one; the
\* progress they carry is whatever the sender computed.
UpdateEvents ==
    { [type |-> "generation-update", clientId |-> c, status |-> st, progress |-> Pct(p),
       message |-> "Working...", currentStep |-> "generateTheme", steps |-> steps,
       estimatedTimeRemaining |-> Undefined, error |-> Undefined] :
      c \in ClientIds, st \in {"starting", "in-progress", "completed", "error"},
      p \in {0, 30, 60, 100}, steps \in EventSteps }

CompleteEvents ==
    { [type |-> "generation-complete", clientId |-> c, previewUrl |-> "https://x.test",
       generatedAt |-> "2025-01-01T00:00:00Z", message |-> "done"] : c \in ClientIds }

ErrorEvents ==
    { [type |-> "generation-error", clientId |-> c, error |-> "build error",
       message |-> "Generation failed", retryable |-> TRUE] : c \in ClientIds }

ProgFrame == UNCHANGED <<serverVars, now, genVars, fnVars, restVars, ws, form>>

\* handleGenerationUpdate
ProgOnUpdate(data) ==
    /\ prog' = IF data.clientId # prog.progressState.clientId
               THEN [prog EXCEPT !.lastOp = "ignored", !.lastEvent = data]
               ELSE [prog EXCEPT
                       !.progressState = updateProgressState(@,
                           [status |-> data.status, progress |-> data.progress,
                            message |-> data.message, currentStep |-> data.currentStep,
                            steps |-> data.steps,
                            estimatedTimeRemaining |-> data.estimatedTimeRemaining,
                            error |-> data.error]),
                       !.lastOp = "handleGenerationUpdate", !.lastEvent = data]
    /\ ProgFrame

\* handleGenerationComplete
ProgOnComplete(data) ==
    /\ prog' = IF data.clientId # prog.progressState.clientId
               THEN [prog EXCEPT !.lastOp = "ignored", !.lastEvent = data]
               ELSE [prog EXCEPT
                       !.progressState = updateProgressState(@,
                           [status |-> "completed", progress |-> Pct(100),
                            message |-> "Your website is ready!",
                            previewUrl |-> data.previewUrl,
                            generatedAt |-> data.generatedAt]),
                       !.lastOp = "handleGenerationComplete", !.lastEvent = data]
    /\ ProgFrame

\* handleGenerationError
ProgOnError(data) ==
    /\ prog' = IF data.clientId # prog.progressState.clientId
               THEN [prog EXCEPT !.lastOp = "ignored", !.lastEvent = data]
               ELSE [prog EXCEPT
                       !.progressState = updateProgressState(@,
                           [status |-> "error", message |-> data.message,
                            error |-> data.error]),
                       !.lastOp = "handleGenerationError", !.lastEvent = data]
    /\ ProgFrame

\* The state startGeneration leaves (it returns at once when not connected).
StartGenerationState(p) ==
    IF ~p.isConnected THEN p.progressState
    ELSE updateProgressState(p.progressState,
             [status |-> "starting", progress |-> 0,
              message |-> "Starting website generation...",
              error |-> Undefined, previewUrl |-> Undefined,
              generatedAt |-> Undefined])

\* startGeneration: called by the component, and by the auto-join effect
\* while connected with status 'starting'.
ProgStartGeneration ==
    /\ prog.isConnected
    /\ prog' = [prog EXCEPT !.progressState = StartGenerationState(prog),
                            !.lastOp = "startGeneration", !.lastEvent = NoEvent]
    /\ ProgFrame

\* retry
ProgRetry ==
    /\ prog' = [prog EXCEPT
                  !.progressState =
                      StartGenerationState(
                          [prog EXCEPT !.progressState = updateProgressState(@,
                              [status |-> "starting", error |-> Undefined,
                               message |-> "Retrying website generation..."])]),
                  !.lastOp = "retry", !.lastEvent = NoEvent]
    /\ ProgFrame

\* reset
ProgReset ==
    /\ prog' = [prog EXCEPT
                  !.progressState =
                      [clientId |-> HookClientId, status |-> "starting", progress |-> 0,
                       message |-> "Ready to generate website...",
                       currentStep |-> "uploadLogo",
                       steps |-> [uploadLogo |-> "pending", analyzeLogo |-> "pending",
                                  generateTheme |-> "pending", createRepo |-> "pending",
                                  deployPreview |-> "pending"]],
                  !.lastOp = "reset", !.lastEvent = NoEvent]
    /\ ProgFrame

\* The connection comes up or goes down (useWebSocket's isConnected).
ProgConnection(isConnected) ==
    /\ prog.isConnected # isConnected
    /\ prog' = [prog EXCEPT !.isConnected = isConnected, !.lastOp = "connection",
                            !.lastEvent = NoEvent]
    /\ ProgFrame

\* One component using useGenerationProgress and the events sent to it.
InitProgress ==
    /\ ServerInit
    /\ webhookSecret = Undefined
    /\ now = 0
    /\ GenInit
    /\ githubToken = "ghp_token"
    /\ FnInit
    /\ AliasInit
    /\ PollInit
    /\ UiInit

NextProgress ==
    \/ \E data \in UpdateEvents : ProgOnUpdate(data)
    \/ \E data \in CompleteEvents : ProgOnComplete(data)
    \/ \E data \in ErrorEvents : ProgOnError(data)
    \/ ProgStartGeneration
    \/ ProgRetry
    \/ ProgReset
    \/ \E isConnected \in BOOLEAN : ProgConnection(isConnected)

SpecProgress == InitProgress /\ [][NextProgress]_vars

====
